---- MODULE Spec2Model ----
(***************************************************************************)
(* Model of the incremental Voronoi-diagram engine of                      *)
(* src/src/voronoidiagram.cpp (class VoronoiDiagram).                      *)
(*                                                                         *)
(* The half-edge graph g is modelled by three functions (vertices,         *)
(* half-edges, faces) indexed by stable handles.  Positions are pairs of   *)
(* integers in units of 1/Scale.  The numeric collaborators (in_circle,    *)
(* in_region, is_right, the positioning solver, the face grid) are         *)
(* computed from the positions; a predicate whose value is within Eps      *)
(* units of its threshold may come out either way, and a value drawn for   *)
(* a vertex is remembered for the rest of the insertion.                   *)
(* One public call is a sequence of steps (pc) from one step-mode          *)
(* checkpoint of the code to the next.  A failed assert of                 *)
(* voronoidiagram.cpp ends the program (pc = "crashed").                   *)
(***************************************************************************)
EXTENDS Integers, Sequences, FiniteSets, TLC

VARIABLES
    g,                  \* the half-edge graph: [vert, edge, face, nv, ne, nf, count]
    num_psites,         \* number of point sites
    num_lsites,         \* number of line sites
    vertex_map,         \* index -> vertex descriptor of the POINTSITE vertex
    vertexQueue,        \* priority queue of <<vertex, in_circle>> pairs
    modified_vertices,  \* set of vertices to reset at the end of an insertion
    incident_faces,     \* sequence of faces flagged INCIDENT
    v0,                 \* sequence of IN vertices (the delete tree)
    segment_start,      \* ENDPOINT vertices of the segment being inserted
    segment_end,
    zero_point_face,    \* face of a point site that disappears
    null_face1,         \* null faces of the segment being inserted
    null_face2,
    hval,               \* in_circle / in_region values of this insertion, by vertex
    split_calls,        \* the add_split_vertex calls of the last mark_adjacent_faces
    pc,                 \* position inside the running public call
    call,               \* locals of the running public call
    ret,                \* result of the last returned public call
    hist                \* observations about the calls made so far, and the
                        \* edge entry of every face when the last call returned

vars == <<g, num_psites, num_lsites, vertex_map, vertexQueue, modified_vertices,
          incident_faces, v0, segment_start, segment_end, zero_point_face,
          null_face1, null_face2, hval, split_calls, pc, call, ret, hist>>

-----------------------------------------------------------------------------
(* Bounds of the model *)

\* number of insert_point_site calls explored
MaxPoints == 2
\* number of insert_line_site calls explored
MaxLines == 1

-----------------------------------------------------------------------------
(* Null handles: HEVertex(), HEEdge(), g.HFace() *)

NoV == 0
NoE == 0
NoF == 0

\* the values in_circle may return for a vertex without a position
\* (negative: inside the clearance disk)
HVals == {-1, 1}

Abs(x) == IF x < 0 THEN -x ELSE x

\* the elements of a finite set of integers in ascending order
RECURSIVE SortedSeq(_)
SortedSeq(S) ==
    IF S = {} THEN <<>>
    ELSE LET m == CHOOSE x \in S : \A y \in S : x <= y
         IN  <<m>> \o SortedSeq(S \ {m})

SeqSet(s) == { s[i] : i \in 1 .. Len(s) }

-----------------------------------------------------------------------------
(* Geometry.  A position is a pair of integers in units of 1/Scale; NoPos  *)
(* is the position of a vertex the model has no position for.  A numeric   *)
(* predicate whose value is within Eps units of its threshold may come out *)
(* either way, and so may a predicate on a vertex without a position.      *)

Scale == 8
Eps == 3
FarRadius == 10

NoPos == << >>

Scaled(p) == <<Scale * p[1], Scale * p[2]>>

\* floor of the square root
RECURSIVE IsqrtIter(_, _)
IsqrtIter(n, x) ==
    LET y == (x + n \div x) \div 2
    IN  IF y >= x THEN x ELSE IsqrtIter(n, y)

Isqrt(n) == IF n < 2 THEN n ELSE IsqrtIter(n, n)

Dist2(a, b) == (a[1] - b[1]) * (a[1] - b[1]) + (a[2] - b[2]) * (a[2] - b[2])
Dist(a, b) == Isqrt(Dist2(a, b))

\* (b - a) x (v - a) and (v - a) . (b - a)
Cross(a, b, v) == (b[1] - a[1]) * (v[2] - a[2]) - (b[2] - a[2]) * (v[1] - a[1])
Dot(a, b, v) == (v[1] - a[1]) * (b[1] - a[1]) + (v[2] - a[2]) * (b[2] - a[2])

Midpoint(a, b) == <<(a[1] + b[1]) \div 2, (a[2] + b[2]) \div 2>>

\* the foot of the perpendicular from v on the line through a and b
Foot(v, a, b) ==
    <<a[1] + ((b[1] - a[1]) * Dot(a, b, v)) \div Dist2(a, b),
      a[2] + ((b[2] - a[2]) * Dot(a, b, v)) \div Dist2(a, b)>>

\* the point at the same distance from a, b and c; NoPos if they are collinear
Circumcenter(a, b, c) ==
    LET d  == 2 * (a[1] * (b[2] - c[2]) + b[1] * (c[2] - a[2]) + c[1] * (a[2] - b[2]))
        a2 == a[1] * a[1] + a[2] * a[2]
        b2 == b[1] * b[1] + b[2] * b[2]
        c2 == c[1] * c[1] + c[2] * c[2]
        x  == a2 * (b[2] - c[2]) + b2 * (c[2] - a[2]) + c2 * (a[2] - b[2])
        y  == a2 * (c[1] - b[1]) + b2 * (a[1] - c[1]) + c2 * (b[1] - a[1])
    IN  IF d = 0 THEN NoPos
        ELSE IF d > 0 THEN <<x \div d, y \div d>>
        ELSE <<(-x) \div (-d), (-y) \div (-d)>>

\* Point::is_right: v lies to the right of the line from p1 to p2
\* (the cross product is exactly zero where two of the three points coincide)
IsRightVals(v, p1, p2) ==
    IF v = NoPos THEN BOOLEAN
    ELSE IF v = p1 \/ v = p2 \/ p1 = p2 THEN {FALSE}
    ELSE IF Abs(Cross(p1, p2, v)) <= Eps * Dist(p1, p2) THEN BOOLEAN
    ELSE {Cross(p1, p2, v) < 0}

\* k3 = +1 / -1 from a sign flag
k3_of(flag) == IF flag THEN 1 ELSE -1

\* the point t/Steps of the way from a to b
Steps == 1024
EdgePoint(a, b, t) ==
    <<a[1] + ((b[1] - a[1]) * t) \div Steps, a[2] + ((b[2] - a[2]) * t) \div Steps>>

RECURSIVE Bisect(_, _, _, _, _)
Bisect(F(_), a, b, lo, hi) ==
    IF hi - lo <= 1 THEN EdgePoint(a, b, lo)
    ELSE LET m == (lo + hi) \div 2
         IN  IF (F(EdgePoint(a, b, m)) < 0) = (F(a) < 0)
             THEN Bisect(F, a, b, m, hi)
             ELSE Bisect(F, a, b, lo, m)

\* the point of the straight edge from a to b where F changes sign; NoPos
\* where an end has no position or F has the same sign at both ends
RootOnEdge(F(_), a, b) ==
    IF a = NoPos \/ b = NoPos THEN NoPos
    ELSE IF (F(a) < 0) = (F(b) < 0) THEN NoPos
    ELSE Bisect(F, a, b, 0, Steps)

\* the set of functions f on DOMAIN ch with f[q] \in ch[q]
RECURSIVE Product(_)
Product(ch) ==
    IF DOMAIN ch = {} THEN { << >> }
    ELSE LET q    == CHOOSE x \in DOMAIN ch : TRUE
             rest == [x \in (DOMAIN ch) \ {q} |-> ch[x]]
         IN  { (q :> c) @@ f : c \in ch[q], f \in Product(rest) }

-----------------------------------------------------------------------------
(* Sites *)

NoSite == [kind |-> "none", a |-> NoV, b |-> NoV, k |-> 0]
PointSite(p) == [kind |-> "point", a |-> p, b |-> NoV, k |-> 1]
LineSite(a, b, k) == [kind |-> "line", a |-> a, b |-> b, k |-> k]
isPoint(s) == s.kind = "point"
isLine(s) == s.kind = "line"

-----------------------------------------------------------------------------
(* The half-edge graph: the operations of g *)

VoronoiVertex(st, ty, idx, k3) ==
    [status |-> st, type |-> ty, index |-> idx, k3 |-> k3, alfa |-> -1,
     in_queue |-> FALSE, null_face |-> NoF, face |-> NoF, pos |-> NoPos, ref |-> NoPos, r |-> 0]

EdgeProps(s, t) ==
    [src |-> s, trg |-> t, twin |-> NoE, next |-> NoE, face |-> NoF,
     type |-> "LINE", k |-> 0]

FaceProps == [edge |-> NoE, site |-> NoSite, status |-> "NONINCIDENT"]

\* the handle g.add_vertex / g.add_face will return
NewV(G) == G.nv + 1
NewF(G) == G.nf + 1

g_add_vertex(G, st, ty, k3) ==
    [G EXCEPT !.nv = @ + 1, !.count = @ + 1,
              !.vert = @ @@ (NewV(G) :> VoronoiVertex(st, ty, G.count, k3))]

\* VoronoiVertex(pos, ..., ref): the position of vertex v, and init_dist(ref);
\* without ref (ref = NoPos) the clearance radius is left at zero
g_place(G, v, pos, ref) ==
    [G EXCEPT !.vert[v].pos = pos,
              !.vert[v].ref = ref,
              !.vert[v].r = IF pos = NoPos \/ ref = NoPos THEN 0 ELSE Dist(pos, ref)]

\* a single half-edge u -> v; its handle is G.ne + 1
g_add_edge(G, u, v) ==
    [G EXCEPT !.ne = @ + 1, !.edge = @ @@ ((G.ne + 1) :> EdgeProps(u, v))]

g_twin_edges(G, e1, e2) ==
    [G EXCEPT !.edge[e1].twin = e2, !.edge[e2].twin = e1]

\* two half-edges u -> v (handle G.ne + 1) and v -> u (handle G.ne + 2), twinned
g_add_twin_edges(G, u, v) ==
    g_twin_edges(g_add_edge(g_add_edge(G, u, v), v, u), G.ne + 1, G.ne + 2)

g_add_face(G) ==
    [G EXCEPT !.nf = @ + 1, !.face = @ @@ (NewF(G) :> FaceProps)]

g_set_next(G, e1, e2) == [G EXCEPT !.edge[e1].next = e2]

\* chain the list into a ring, set face and k of every edge, f.edge = first
g_set_next_cycle(G, list, f, k) ==
    [G EXCEPT !.edge = [e \in DOMAIN @ |->
                          IF \E i \in 1 .. Len(list) : list[i] = e
                          THEN LET i == CHOOSE j \in 1 .. Len(list) : list[j] = e
                               IN  [@[e] EXCEPT !.next = list[(i % Len(list)) + 1],
                                                !.face = f, !.k = k]
                          ELSE @[e]],
              !.face[f].edge = list[1]]

\* chain the list (no ring): next pointers only
g_set_next_chain(G, list) ==
    [G EXCEPT !.edge = [e \in DOMAIN @ |->
                          IF \E i \in 1 .. Len(list) - 1 : list[i] = e
                          THEN LET i == CHOOSE j \in 1 .. Len(list) - 1 : list[j] = e
                               IN  [@[e] EXCEPT !.next = list[i + 1]]
                          ELSE @[e]]]

\* chain the list (no ring), set face and k of every edge, f.edge = first
g_set_next_chain_f(G, list, f, k) ==
    LET G1 == g_set_next_chain(G, list)
    IN  [G1 EXCEPT !.edge = [e \in DOMAIN @ |->
                               IF e \in SeqSet(list)
                               THEN [@[e] EXCEPT !.face = f, !.k = k]
                               ELSE @[e]],
                   !.face[f].edge = list[1]]

\* half-edges leaving v, in the order they were added
g_out_edges(G, v) == SortedSeq({ e \in DOMAIN G.edge : G.edge[e].src = v })

g_has_edge(G, u, v) == \E e \in DOMAIN G.edge : G.edge[e].src = u /\ G.edge[e].trg = v

\* the ring of e: e, e.next, e.next.next, ... until e is met again.  The walk
\* ends early, with last element NoE, where a next pointer is null or dangles,
\* and after Cardinality(edges) + 1 steps where the ring never returns to e.
RECURSIVE RingFrom(_, _, _, _)
RingFrom(G, e, cur, acc) ==
    IF cur \notin DOMAIN G.edge THEN Append(acc, NoE)
    ELSE IF cur = e /\ acc # <<>> THEN acc
    ELSE IF Len(acc) > Cardinality(DOMAIN G.edge) THEN Append(acc, NoE)
    ELSE RingFrom(G, e, G.edge[cur].next, Append(acc, cur))

Ring(G, e) == RingFrom(G, e, e, <<>>)
RingOK(G, e) == LET r == Ring(G, e) IN r # <<>> /\ r[Len(r)] # NoE

\* the edge whose next is e, found by walking the ring of e
g_previous_edge(G, e) == LET r == Ring(G, e) IN r[Len(r)]

\* insert vertex v into edge e: e and its twin are replaced by four new edges
\*   previous -> e1 -> e2 -> next      (face of e)
\*   tw_previous -> te1 -> te2 -> tw_next   (face of the twin)
g_add_vertex_in_edge(G, v, e) ==
    LET tw    == G.edge[e].twin
        prv   == g_previous_edge(G, e)
        twprv == g_previous_edge(G, tw)
        e1    == G.ne + 1
        te2   == G.ne + 2
        e2    == G.ne + 3
        te1   == G.ne + 4
        s     == G.edge[e].src
        t     == G.edge[e].trg
        nxt   == IF G.edge[e].next = tw THEN te1 ELSE G.edge[e].next
        twnxt == IF G.edge[tw].next = e THEN e1 ELSE G.edge[tw].next
        old   == G.edge
        new   == (e1  :> [old[e]  EXCEPT !.src = s, !.trg = v, !.twin = te2, !.next = e2])
              @@ (e2  :> [old[e]  EXCEPT !.src = v, !.trg = t, !.twin = te1, !.next = nxt])
              @@ (te1 :> [old[tw] EXCEPT !.src = t, !.trg = v, !.twin = e2,  !.next = te2])
              @@ (te2 :> [old[tw] EXCEPT !.src = v, !.trg = s, !.twin = e1,  !.next = twnxt])
        kept  == [x \in (DOMAIN old) \ {e, tw} |->
                    IF x = prv /\ x = twprv THEN [old[x] EXCEPT !.next = te1]
                    ELSE IF x = prv THEN [old[x] EXCEPT !.next = e1]
                    ELSE IF x = twprv THEN [old[x] EXCEPT !.next = te1]
                    ELSE old[x]]
        fe    == G.edge[e].face
        ft    == G.edge[tw].face
    IN  [G EXCEPT !.ne = @ + 4,
                  !.edge = new @@ kept,
                  !.face = [f \in DOMAIN @ |->
                              IF f = ft THEN [@[f] EXCEPT !.edge = te1]
                              ELSE IF f = fe THEN [@[f] EXCEPT !.edge = e1]
                              ELSE @[f]]]

\* remove v and every half-edge that starts or ends at v
g_delete_vertex(G, v) ==
    [G EXCEPT !.vert = [x \in (DOMAIN @) \ {v} |-> @[x]],
              !.edge = [e \in { x \in DOMAIN @ : @[x].src # v /\ @[x].trg # v } |-> @[e]]]

-----------------------------------------------------------------------------
(* The engine object: the graph and the members of VoronoiDiagram.  The    *)
(* operators below take the object D and return it as the code leaves it;  *)
(* D.ok turns FALSE where an assert fails or a dangling handle is used.    *)

Crash(D) == [D EXCEPT !.ok = FALSE]

Source(D, e) == D.g.edge[e].src
Target(D, e) == D.g.edge[e].trg
Status(D, v) == D.g.vert[v].status
Type(D, v) == D.g.vert[v].type
LiveV(D, v) == v \in DOMAIN D.g.vert
LiveE(D, e) == e \in DOMAIN D.g.edge
LiveF(D, f) == f \in DOMAIN D.g.face

\* the ring of face f starting at g[f].edge, as the do-while loops walk it
FaceRing(D, f) == Ring(D.g, D.g.face[f].edge)
FaceRingOK(D, f) == LiveF(D, f) /\ RingOK(D.g, D.g.face[f].edge)

Position(D, v) == D.g.vert[v].pos

\* Site::apex_point(p): the site itself for a point site, for a line site the
\* foot of the perpendicular from p, kept on the segment
apex_point(D, site, p) ==
    IF isPoint(site) THEN Position(D, site.a)
    ELSE LET A == Position(D, site.a)
             B == Position(D, site.b)
         IN  IF Dot(A, B, p) <= 0 THEN A
             ELSE IF Dot(A, B, p) >= Dist2(A, B) THEN B
             ELSE Foot(p, A, B)

\* the values g[q].in_circle(site->apex_point(g[q].position)) may return:
\* dist(p) - r, which is zero where p is the point r was taken from
InCircleVals(D, site, q) ==
    LET pos == Position(D, q)
    IN  IF pos = NoPos THEN HVals
        ELSE LET p == apex_point(D, site, pos)
                 h == Dist(pos, p) - D.g.vert[q].r
             IN  IF p = D.g.vert[q].ref THEN {0}
                 ELSE IF Abs(h) <= Eps THEN HVals
                 ELSE {h}

\* the values site->in_region(p) may return
InRegionAt(D, site, p) ==
    IF isPoint(site) THEN {TRUE}
    ELSE IF p = NoPos THEN BOOLEAN
    ELSE LET A   == Position(D, site.a)
             B   == Position(D, site.b)
             dot == Dot(A, B, p)
             len == Dist2(A, B)
             tol == Eps * Dist(A, B)
         IN  IF Abs(dot) <= tol \/ Abs(dot - len) <= tol THEN BOOLEAN
             ELSE {0 <= dot /\ dot <= len}

InRegionVals(D, site, q) == InRegionAt(D, site, Position(D, q))

\* in_circle and in_region of vertex q for the site being inserted, as drawn
in_circle(D, q) == D.hval[q].h
in_region(D, site, q) == IF isPoint(site) THEN TRUE ELSE D.hval[q].r

\* the records an evaluation of the vertices of S may return; in_region is
\* read only where in_circle is negative
OracleDraws(D, S, site) ==
    Product([q \in S |->
               UNION { { [h |-> h, r |-> r] :
                           r \in IF h >= 0 THEN {TRUE} ELSE InRegionVals(D, site, q) } :
                       h \in InCircleVals(D, site, q) }])

Remember(D, draw) ==
    [D EXCEPT !.hval = [q \in (DOMAIN @) \cup (DOMAIN draw) |->
                          IF q \in DOMAIN @ THEN @[q] ELSE draw[q]]]

-----------------------------------------------------------------------------
(* find_seed_vertex *)

\* the test of line 953 left out
SeedCandidate_any(D, q) == TRUE

SeedCandidate(D, q) == Status(D, q) # "OUT" /\ Type(D, q) = "NORMAL"

\* the vertices find_seed_vertex evaluates in_circle for
SeedEvaluated(D, f) ==
    IF FaceRingOK(D, f)
    THEN { q \in { Target(D, e) : e \in SeqSet(FaceRing(D, f)) } : SeedCandidate(D, q) }
    ELSE {}

RECURSIVE SeedWalk(_, _, _, _, _)
SeedWalk(D, site, ring, i, best) ==
    IF i > Len(ring) THEN best
    ELSE LET q == Target(D, ring[i])
             h == in_circle(D, q)
         IN  IF SeedCandidate(D, q)
                /\ (best.first \/ (h < best.minPred /\ in_region(D, site, q)))
             THEN SeedWalk(D, site, ring, i + 1,
                           [first |-> FALSE, minPred |-> h, minimalVertex |-> q])
             ELSE SeedWalk(D, site, ring, i + 1, best)

\* [minPred, minimalVertex]: the vertex of f with the largest violation
find_seed_vertex(D, f, site) ==
    SeedWalk(D, site, FaceRing(D, f), 1,
             [first |-> TRUE, minPred |-> 0, minimalVertex |-> NoV])

-----------------------------------------------------------------------------
(* mark_vertex, mark_adjacent_faces_p *)

RECURSIVE MarkFacesLoop(_, _, _)
MarkFacesLoop(D, es, i) ==
    IF i > Len(es) THEN D
    ELSE LET adj_face == D.g.edge[es[i]].face
         IN  IF ~LiveF(D, adj_face) THEN Crash(D)
             ELSE IF D.g.face[adj_face].status # "INCIDENT"
             THEN MarkFacesLoop(
                      [D EXCEPT !.g.face[adj_face].status = "INCIDENT",
                                !.incident_faces = Append(@, adj_face)],
                      es, i + 1)
             ELSE MarkFacesLoop(D, es, i + 1)

\* mark_adjacent_faces_p without the push_back on incident_faces
mark_adjacent_faces_p_unlisted(D, v) ==
    LET adj == { D.g.edge[e].face : e \in SeqSet(g_out_edges(D.g, v)) }
    IN  IF ~(adj \subseteq DOMAIN D.g.face) THEN Crash(D)
        ELSE [D EXCEPT !.g.face = [x \in DOMAIN @ |->
                                     IF x \in adj THEN [@[x] EXCEPT !.status = "INCIDENT"]
                                     ELSE @[x]]]

mark_adjacent_faces_p(D, v) == MarkFacesLoop(D, g_out_edges(D.g, v), 1)

\* Pushed without the test of the status: every neighbour not yet queued
Pushed_any_status(D, v) ==
    { w \in { Target(D, e) : e \in SeqSet(g_out_edges(D.g, v)) } :
        ~D.g.vert[w].in_queue }

\* the neighbours of v that mark_vertex pushes onto the queue
Pushed(D, v) ==
    { w \in { Target(D, e) : e \in SeqSet(g_out_edges(D.g, v)) } :
        Status(D, w) = "UNDECIDED" /\ ~D.g.vert[w].in_queue }

\* the push of lines 1018-1027 without in_queue = true
push_adjacent_unflagged(D, v) ==
    [D EXCEPT !.vertexQueue = @ \cup { <<w, in_circle(D, w)>> : w \in Pushed(D, v) }]

push_adjacent(D, v) ==
    LET P == Pushed(D, v)
    IN  [D EXCEPT !.vertexQueue = @ \cup { <<w, in_circle(D, w)>> : w \in P },
                  !.g.vert = [x \in DOMAIN @ |->
                                IF x \in P THEN [@[x] EXCEPT !.in_queue = TRUE]
                                ELSE @[x]]]

\* mark_IN without the push_back on v0
mark_IN_unlisted(D, v) ==
    [D EXCEPT !.g.vert[v].status = "IN",
              !.modified_vertices = @ \cup {v}]

\* mark_vertex, lines 1009-1011
mark_IN(D, v) ==
    [D EXCEPT !.g.vert[v].status = "IN",
              !.v0 = Append(@, v),
              !.modified_vertices = @ \cup {v}]

-----------------------------------------------------------------------------
(* predicate_c4, predicate_c5 *)

predicate_c4(D, v) ==
    Cardinality({ e \in SeqSet(g_out_edges(D.g, v)) : Status(D, Target(D, e)) = "IN" }) >= 2

adjacent_incident_faces(D, v) ==
    { D.g.edge[e].face : e \in { x \in SeqSet(g_out_edges(D.g, v)) :
                                   D.g.face[D.g.edge[x].face].status = "INCIDENT" } }

\* predicate_c5 that asks for an IN neighbour on every incident face and
\* for nothing else
predicate_c5_plain(D, v) ==
    \A f \in adjacent_incident_faces(D, v) :
       \E e \in SeqSet(FaceRing(D, f)) :
          /\ Target(D, e) # v
          /\ Status(D, Target(D, e)) = "IN"
          /\ g_has_edge(D.g, Target(D, e), v)

c5_face_ok(D, v, f) ==
    \E e \in SeqSet(FaceRing(D, f)) :
        LET w == Target(D, e)
        IN  w # v /\ \/ (Status(D, w) = "IN" /\ g_has_edge(D.g, w, v))
                     \/ Type(D, w) \in {"ENDPOINT", "APEX", "SPLIT"}

predicate_c5(D, v) ==
    IF Type(D, v) \in {"APEX", "SPLIT"} THEN TRUE
    ELSE \A f \in adjacent_incident_faces(D, v) : c5_face_ok(D, v, f)

\* the assert of predicate_c5, and the rings it walks are closed
predicate_c5_defined(D, v) ==
    Type(D, v) \in {"APEX", "SPLIT"}
    \/ /\ \A e \in SeqSet(g_out_edges(D.g, v)) : LiveF(D, D.g.edge[e].face)
       /\ adjacent_incident_faces(D, v) # {}
       /\ \A f \in adjacent_incident_faces(D, v) : FaceRingOK(D, f)

-----------------------------------------------------------------------------
(* add_vertices, find_in_out_edges *)

RECURSIVE InOutEdges(_, _, _)
InOutEdges(D, i, acc) ==
    IF i > Len(D.v0) THEN acc
    ELSE LET es == g_out_edges(D.g, D.v0[i])
             io == SelectSeq(es, LAMBDA e : Status(D, Target(D, e)) = "OUT")
         IN  InOutEdges(D, i + 1, acc \o io)

\* the asserts of find_in_out_edges hold
find_in_out_edges_ok(D) ==
    /\ D.v0 # <<>>
    /\ \A i \in 1 .. Len(D.v0) : LiveV(D, D.v0[i]) /\ Status(D, D.v0[i]) = "IN"
    /\ InOutEdges(D, 1, <<>>) # <<>>

\* find_in_out_edges that leaves out the last edge it found
find_in_out_edges_short(D) == SubSeq(InOutEdges(D, 1, <<>>), 1, Len(InOutEdges(D, 1, <<>>)) - 1)

find_in_out_edges(D) == InOutEdges(D, 1, <<>>)

\* g.add_vertex_in_edge can run: e exists, has a twin, and both rings are closed
CanSplitEdge(D, e) ==
    /\ LiveE(D, e)
    /\ LiveE(D, D.g.edge[e].twin)
    /\ RingOK(D.g, e)
    /\ RingOK(D.g, D.g.edge[e].twin)
    /\ LiveF(D, D.g.edge[e].face)
    /\ LiveF(D, D.g.edge[D.g.edge[e].twin].face)

\* the point vpos->position(e, new_site) returns: at the same distance from
\* the new site and from the sites of the two faces of e.  The model has it
\* for an edge between two point sites; NoPos otherwise.
SolverPos(D, e, site) ==
    LET a == Position(D, Source(D, e))
        b == Position(D, Target(D, e))
        X == D.g.face[D.g.edge[e].face].site
        Y == D.g.face[D.g.edge[D.g.edge[e].twin].face].site
    IN  IF ~(isPoint(X) /\ isPoint(Y)) THEN NoPos
        ELSE IF isPoint(site)
        THEN Circumcenter(Position(D, X.a), Position(D, Y.a), Position(D, site.a))
        ELSE LET A == Position(D, site.a)
                 B == Position(D, site.b)
                 E == {Position(D, X.a), Position(D, Y.a)}
             IN  \* on the face of an end of the segment: where the edge meets
                 \* the perpendicular through that end
                 IF A \in E THEN RootOnEdge(LAMBDA p : Dot(A, B, p), a, b)
                 ELSE IF B \in E THEN RootOnEdge(LAMBDA p : Dot(B, A, p), a, b)
                 ELSE RootOnEdge(LAMBDA p : Dist(p, apex_point(D, site, p))
                                            - Dist(p, Position(D, X.a)), a, b)

\* the k3 the solver may return with that point: +1 for a point site, for a
\* line site +1 on the left of the site's direction and -1 on its right
K3Vals(D, e, site, pos) ==
    IF isPoint(site) THEN {1}
    ELSE LET A  == Position(D, site.a)
             B  == Position(D, site.b)
             sa == IsRightVals(Position(D, Source(D, e)), A, B)
             sb == IsRightVals(Position(D, Target(D, e)), A, B)
         IN  IF pos # NoPos THEN { k3_of(~rgt) : rgt \in IsRightVals(pos, A, B) }
             ELSE IF sa = sb THEN { k3_of(~rgt) : rgt \in sa }
             ELSE {-1, 1}

\* one iteration of the loop of add_vertices, for every k3 the solver may return
AddVertexOutcomes(D, e, site) ==
    IF ~D.ok THEN {D}
    ELSE IF ~CanSplitEdge(D, e) THEN {Crash(D)}
    ELSE LET q   == NewV(D.g)
             pos == SolverPos(D, e, site)
             ref == IF pos = NoPos THEN NoPos ELSE apex_point(D, site, pos)
         IN  { LET G1 == g_place(g_add_vertex(D.g, "NEW", "NORMAL", k3), q, pos, ref)
               IN  [D EXCEPT !.g = g_add_vertex_in_edge(G1, q, e),
                             !.modified_vertices = @ \cup {q}] :
               k3 \in K3Vals(D, e, site, pos) }

RECURSIVE AddVerticesLoop(_, _, _, _)
AddVerticesLoop(DS, q_edges, site, m) ==
    IF m > Len(q_edges) THEN DS
    ELSE AddVerticesLoop(UNION { AddVertexOutcomes(D, q_edges[m], site) : D \in DS },
                         q_edges, site, m + 1)

add_vertices(D, site) ==
    IF ~find_in_out_edges_ok(D) THEN {Crash(D)}
    ELSE AddVerticesLoop({D}, find_in_out_edges(D), site, 1)

-----------------------------------------------------------------------------
(* add_face *)

\* add_face that adds a second face for the same site
add_face_twice(D, s) ==
    LET G1 == [g_add_face(D.g) EXCEPT !.face[NewF(D.g)].site = s,
                                      !.face[NewF(D.g)].status = "NONINCIDENT"]
    IN  [D EXCEPT !.g = [g_add_face(G1) EXCEPT !.face[NewF(G1)].site = s,
                                               !.face[NewF(G1)].status = "NONINCIDENT"]]

add_face(D, s) ==
    [D EXCEPT !.g = [g_add_face(@) EXCEPT !.face[NewF(D.g)].site = s,
                                          !.face[NewF(D.g)].status = "NONINCIDENT"]]

-----------------------------------------------------------------------------
(* add_edges, find_edge_data, add_edge *)

IsNewVertex(D, v) == Status(D, v) = "NEW" /\ Type(D, v) # "SEPPOINT"

num_new_vertices(D, f) ==
    LET r == FaceRing(D, f)
    IN  Cardinality({ i \in 1 .. Len(r) : IsNewVertex(D, Target(D, r[i])) })

\* the i-th edge of ring r, counting cyclically
Cyc(r, i) == r[((i - 1) % Len(r)) + 1]

\* first loop of find_edge_data: is the target of r[i] an OUT-NEW-IN vertex
IsV1(D, r, i, startverts) ==
    LET previous_vertex == Source(D, r[i])
        current_vertex  == Target(D, r[i])
        next_vertex     == Target(D, Cyc(r, i + 1))
    IN  /\ Status(D, current_vertex) = "NEW"
        /\ Type(D, current_vertex) # "SEPPOINT"
        /\ \/ /\ Status(D, previous_vertex) \in {"OUT", "UNDECIDED"}
              /\ previous_vertex # D.segment_start
              /\ previous_vertex # D.segment_end
           \/ /\ Type(D, next_vertex) = "ENDPOINT"
              /\ next_vertex \in {D.segment_start, D.segment_end}
        /\ current_vertex \notin SeqSet(startverts)

\* the least element of the set I of positive numbers, 0 if I is empty
FirstOf(I) == IF I = {} THEN 0 ELSE CHOOSE i \in I : \A j \in I : i <= j

\* second loop of find_edge_data: starts at the edge after v1_prv = r[i1] and
\* walks the whole ring; the number of steps to the first NEW vertex that is
\* not v1
SecondNew(D, r, i1) ==
    FirstOf({ d \in 1 .. Len(r) : /\ i1 # 0
                                  /\ IsNewVertex(D, Target(D, Cyc(r, i1 + d)))
                                  /\ Target(D, Cyc(r, i1 + d)) # Target(D, r[i1]) })

\* the EdgeData for v1 = target of r[i1] and v2 = target of r[i1 + d2]
EdgeData(D, f, r, i1, d2) ==
    [f |-> f,
     found1 |-> i1 # 0,
     found2 |-> d2 # 0,
     v1     |-> IF i1 = 0 THEN NoV ELSE Target(D, r[i1]),
     v1_prv |-> IF i1 = 0 THEN NoE ELSE r[i1],
     v1_nxt |-> IF i1 = 0 THEN NoE ELSE Cyc(r, i1 + 1),
     v2     |-> IF d2 = 0 THEN NoV ELSE Target(D, Cyc(r, i1 + d2)),
     v2_prv |-> IF d2 = 0 THEN NoE ELSE Cyc(r, i1 + d2),
     v2_nxt |-> IF d2 = 0 THEN NoE ELSE Cyc(r, i1 + d2 + 1)]

find_edge_loops(D, f, r, i1) == EdgeData(D, f, r, i1, SecondNew(D, r, i1))

find_edge_data(D, f, startverts) ==
    find_edge_loops(D, f, FaceRing(D, f),
                    FirstOf({ i \in 1 .. Len(FaceRing(D, f)) :
                                IsV1(D, FaceRing(D, f), i, startverts) }))

\* the type set_parameters gives the bisector of two sites
BisectorType(s1, s2) ==
    IF isPoint(s1) /\ isPoint(s2) THEN "LINE"
    ELSE IF isLine(s1) /\ isLine(s2) THEN "LINELINE"
    ELSE "PARABOLA"

\* src_right, trg_right: is_right of new_source / new_target against the line
\* from the site of f to the new site
add_edge(D, ed, newface, newface2, src_right, trg_right) ==
    LET G             == D.g
        new_previous  == ed.v1_prv
        new_source    == ed.v1
        twin_next     == ed.v1_nxt
        twin_previous == ed.v2_prv
        new_target    == ed.v2
        new_next      == ed.v2_nxt
        f             == ed.f
        f_site        == G.face[f].site
        new_face      == IF G.vert[new_source].k3 = 1 THEN newface ELSE newface2
    IN  IF ~LiveF(D, new_face) THEN Crash(D)
        ELSE
        LET new_site  == G.face[new_face].site
            handled   == \/ isPoint(f_site) /\ isLine(new_site)
                         \/ isPoint(f_site) /\ isPoint(new_site)
                         \/ isLine(f_site) /\ isLine(new_site)
            src_sign  == IF isPoint(f_site) THEN src_right ELSE TRUE
            trg_sign  == IF isPoint(f_site) THEN trg_right ELSE TRUE
            ty        == BisectorType(f_site, new_site)
        IN  IF G.vert[new_target].k3 # G.vert[new_source].k3 THEN Crash(D)
            ELSE IF ~handled THEN Crash(D)
            ELSE IF src_sign = trg_sign
            THEN \* a single src-trg edge
                 LET G1     == g_add_twin_edges(G, new_source, new_target)
                     e_new  == G.ne + 1
                     e_twin == G.ne + 2
                 IN  IF G.edge[new_next].k # G.edge[new_previous].k THEN Crash(D)
                     ELSE [D EXCEPT !.g =
                             [G1 EXCEPT
                                !.edge = [x \in DOMAIN @ |->
                                    IF x = e_new
                                    THEN [@[x] EXCEPT !.next = new_next,
                                                      !.k = G.edge[new_next].k,
                                                      !.face = f, !.type = ty]
                                    ELSE IF x = e_twin
                                    THEN [@[x] EXCEPT !.next = twin_next,
                                                      !.k = G.vert[new_source].k3,
                                                      !.face = new_face, !.type = ty]
                                    ELSE IF x = new_previous /\ x = twin_previous
                                    THEN [@[x] EXCEPT !.next = e_twin]
                                    ELSE IF x = new_previous
                                    THEN [@[x] EXCEPT !.next = e_new]
                                    ELSE IF x = twin_previous
                                    THEN [@[x] EXCEPT !.next = e_twin]
                                    ELSE @[x]],
                                !.face = [x \in DOMAIN @ |->
                                    IF x = new_face THEN [@[x] EXCEPT !.edge = e_twin]
                                    ELSE IF x = f THEN [@[x] EXCEPT !.edge = e_new]
                                    ELSE @[x]]]]
            ELSE \* apex-split
                 LET apex  == NewV(G)
                     G1    == g_add_vertex(G, "NEW", "APEX", 0)
                     G2    == g_add_twin_edges(G1, new_source, apex)
                     e1    == G.ne + 1
                     e1_tw == G.ne + 2
                     G3    == g_add_twin_edges(G2, apex, new_target)
                     e2    == G.ne + 3
                     e2_tw == G.ne + 4
                     G4    == [G3 EXCEPT !.edge[e1].type = ty, !.edge[e2].type = ty,
                                         !.edge[e1_tw].type = ty, !.edge[e2_tw].type = ty]
                 IN  IF \/ G.edge[new_previous].face # f
                        \/ G.edge[new_next].face # f
                        \/ G.edge[new_next].k # G.edge[new_previous].k
                        \/ G.edge[twin_previous].k # G.edge[twin_next].k
                        \/ G.edge[twin_previous].face # G.edge[twin_next].face
                     THEN Crash(D)
                     ELSE
                     LET G5 == g_set_next_chain_f(G4, <<new_previous, e1, e2, new_next>>,
                                                  f, G.edge[new_next].k)
                         G6 == g_set_next_chain(G5, <<twin_previous, e2_tw, e1_tw, twin_next>>)
                         G7 == [G6 EXCEPT
                                  !.edge[e1_tw].k = G.vert[new_source].k3,
                                  !.edge[e2_tw].k = G.vert[new_source].k3,
                                  !.edge[e1_tw].face = new_face,
                                  !.edge[e2_tw].face = new_face,
                                  !.face[new_face].edge = e1_tw]
                         \* g[e1].point(min_t): half way between the site of f
                         \* and the nearest point of the new site
                         fp == Position(D, f_site.a)
                         np == IF isPoint(new_site) THEN Position(D, new_site.a)
                               ELSE Foot(fp, Position(D, new_site.a),
                                         Position(D, new_site.b))
                     IN  [D EXCEPT !.g = g_place(G7, apex, Midpoint(fp, np), fp),
                                   !.modified_vertices = @ \cup {apex}]

\* is_right giving the same result for both NEW vertices
SignVals_same(D, ed, newface, newface2) == {<<TRUE, TRUE>>}

\* the values <<src_sign, trg_sign>> that is_right may return in add_edge for
\* the NEW-NEW pair ed of f
SignVals(D, ed, newface, newface2) ==
    LET new_face == IF D.g.vert[ed.v1].k3 = 1 THEN newface ELSE newface2
        f_site   == D.g.face[ed.f].site
    IN  IF ~LiveF(D, new_face) THEN {<<TRUE, TRUE>>}
        ELSE LET new_site == D.g.face[new_face].site
                 pt1 == Position(D, f_site.a)
                 pt2 == IF isLine(new_site) THEN apex_point(D, new_site, pt1)
                        ELSE Position(D, new_site.a)
             IN  IF isPoint(f_site) /\ new_site # NoSite
                 THEN IsRightVals(Position(D, ed.v1), pt1, pt2)
                      \X IsRightVals(Position(D, ed.v2), pt1, pt2)
                 ELSE {<<TRUE, TRUE>>}

\* add_edge with the EdgeData ed, for every pair of results is_right may return
AddEdgeWith(X, ed, newface, newface2) ==
    IF ~ed.found1 \/ ~ed.found2 THEN {[X EXCEPT !.D = Crash(@)]}
    ELSE { [D |-> add_edge(X.D, ed, newface, newface2, s[1], s[2]),
            startverts |-> Append(X.startverts, ed.v1)] :
           s \in SignVals(X.D, ed, newface, newface2) }

\* one iteration of the loop of add_edges on the pair X = [D, startverts]
AddEdgeOutcomes(X, newface, f, newface2) ==
    IF ~X.D.ok THEN {X}
    ELSE IF ~FaceRingOK(X.D, f) THEN {[X EXCEPT !.D = Crash(@)]}
    ELSE AddEdgeWith(X, find_edge_data(X.D, f, X.startverts), newface, newface2)

RECURSIVE AddEdgesLoop(_, _, _, _, _, _)
AddEdgesLoop(XS, newface, f, newface2, m, n) ==
    IF m > n THEN XS
    ELSE AddEdgesLoop(UNION { AddEdgeOutcomes(X, newface, f, newface2) : X \in XS },
                      newface, f, newface2, m + 1, n)

\* the asserts on new_count at the start of add_edges
add_edges_ok(D, f) ==
    /\ FaceRingOK(D, f)
    /\ num_new_vertices(D, f) > 0
    /\ num_new_vertices(D, f) % 2 = 0

\* a pair count of zero: add_edges adds nothing
new_pairs_none(D, f) == 0

new_pairs(D, f) == num_new_vertices(D, f) \div 2

\* the outcomes of add_edges, one for every result is_right may return
add_edges(D, newface, f, newface2) ==
    IF ~add_edges_ok(D, f) THEN {Crash(D)}
    ELSE { X.D : X \in AddEdgesLoop({[D |-> D, startverts |-> <<>>]},
                                    newface, f, newface2, 1, new_pairs(D, f)) }

-----------------------------------------------------------------------------
(* numeric::diangle, diangle_bracket, diangle_mid.  An alfa value is the   *)
(* diangle times AlfaQuarter, an integer on a ring of AlfaTurn steps.      *)

AlfaQuarter == 8
AlfaTurn == 4 * AlfaQuarter

\* diangle of the direction (x, y), which is not (0, 0)
diangle(x, y) ==
    IF y >= 0
    THEN IF x >= 0 THEN (AlfaQuarter * y) \div (x + y)
         ELSE AlfaQuarter + (AlfaQuarter * (-x)) \div ((-x) + y)
    ELSE IF x < 0 THEN 2 * AlfaQuarter + (AlfaQuarter * (-y)) \div ((-x) + (-y))
         ELSE 3 * AlfaQuarter + (AlfaQuarter * x) \div (x + (-y))

\* the diangle of xy_perp() of a direction with diangle a is a quarter turn on
alfa_perp(a) == (a + AlfaQuarter) % AlfaTurn
\* the diangle of xy_perp()*(-1)
alfa_perp_neg(a) == (a + 3 * AlfaQuarter) % AlfaTurn

\* x lies strictly between a and b when walking counter-clockwise from a
diangle_bracket(a, x, b) ==
    LET dx == (x - a) % AlfaTurn
        db == (b - a) % AlfaTurn
    IN  0 < dx /\ dx < db

\* the alfa half way from a to b, counter-clockwise
diangle_mid(a, b) == (a + ((b - a) % AlfaTurn) \div 2) % AlfaTurn

-----------------------------------------------------------------------------
(* Positions of the sites *)

\* LineSite::in_region for the position of a point site: the point projects
\* onto the segment
InRegionPos(D, s, v) ==
    LET A == Position(D, s.a)
        B == Position(D, s.b)
        P == Position(D, v)
    IN  0 <= Dot(A, B, P) /\ Dot(A, B, P) <= Dist2(A, B)

-----------------------------------------------------------------------------
(* find_next_prev, process_next_null, process_prev_null, find_null_face *)

Alfa(D, v) == D.g.vert[v].alfa

\* the last element of sequence s that satisfies Test, NoE if there is none
LastWhere(s, Test(_)) ==
    LET I == { i \in 1 .. Len(s) : Test(s[i]) }
    IN  IF I = {} THEN NoE ELSE s[CHOOSE i \in I : \A j \in I : j <= i]

\* [ok, next_edge, prev_edge]: the edges of null_face that leave and reach endp
find_next_prev(D, null_face, endp) ==
    IF ~FaceRingOK(D, null_face)
    THEN [ok |-> FALSE, next_edge |-> NoE, prev_edge |-> NoE]
    ELSE LET r  == FaceRing(D, null_face)
             ne == LastWhere(r, LAMBDA e : Source(D, e) = endp)
             pe == LastWhere(r, LAMBDA e : Target(D, e) = endp)
         IN  [ok |-> ne # NoE /\ pe # NoE, next_edge |-> ne, prev_edge |-> pe]

\* identical_seppoint without the NEW mark on the far end of the separator
identical_seppoint_unmarked(D, sp) ==
    LET S == { e \in SeqSet(g_out_edges(D.g, sp)) : D.g.edge[e].type = "SEPARATOR" }
    IN  IF S = {} THEN Crash(D)
        ELSE
        LET sep_edge == CHOOSE e \in S : \A x \in S : x <= e
            sep_twin == D.g.edge[sep_edge].twin
        IN  IF ~LiveE(D, sep_twin) THEN Crash(D)
            ELSE
            LET sep_face      == D.g.edge[sep_edge].face
                sep_twin_face == D.g.edge[sep_twin].face
            IN  IF ~LiveF(D, sep_face) \/ ~LiveF(D, sep_twin_face) THEN Crash(D)
                ELSE
                LET sep_site      == D.g.face[sep_face].site
                    sep_twin_site == D.g.face[sep_twin_face].site
                    sep_target    == Target(D, sep_edge)
                IN  \* a face without a site has a null Site pointer; with no
                    \* point site on either side pointsite_edge is never assigned
                    IF sep_site = NoSite \/ sep_twin_site = NoSite THEN Crash(D)
                    ELSE IF ~isPoint(sep_site) /\ ~isPoint(sep_twin_site) THEN Crash(D)
                    ELSE [D EXCEPT
                            !.zero_point_face = IF isPoint(sep_twin_site)
                                                THEN sep_twin_face ELSE sep_face]

\* the identical-SEPPOINT case of process_next_null / process_prev_null for
\* the SEPPOINT sp: the face on the point-site side of its SEPARATOR becomes
\* zero_point_face, the far end of the separator becomes NEW
identical_seppoint(D, sp) ==
    LET S == { e \in SeqSet(g_out_edges(D.g, sp)) : D.g.edge[e].type = "SEPARATOR" }
    IN  IF S = {} THEN Crash(D)
        ELSE
        LET sep_edge == CHOOSE e \in S : \A x \in S : x <= e
            sep_twin == D.g.edge[sep_edge].twin
        IN  IF ~LiveE(D, sep_twin) THEN Crash(D)
            ELSE
            LET sep_face      == D.g.edge[sep_edge].face
                sep_twin_face == D.g.edge[sep_twin].face
            IN  IF ~LiveF(D, sep_face) \/ ~LiveF(D, sep_twin_face) THEN Crash(D)
                ELSE
                LET sep_site      == D.g.face[sep_face].site
                    sep_twin_site == D.g.face[sep_twin_face].site
                    sep_target    == Target(D, sep_edge)
                IN  \* a face without a site has a null Site pointer; with no
                    \* point site on either side pointsite_edge is never assigned
                    IF sep_site = NoSite \/ sep_twin_site = NoSite THEN Crash(D)
                    ELSE IF ~isPoint(sep_site) /\ ~isPoint(sep_twin_site) THEN Crash(D)
                    ELSE [D EXCEPT
                            !.zero_point_face = IF isPoint(sep_twin_site)
                                                THEN sep_twin_face ELSE sep_face,
                            !.g.vert[sep_target].status = "NEW",
                            !.modified_vertices = @ \cup {sep_target}]

\* add_sep_point: a new SEPPOINT with the given alfa and k3 inside edge
add_sep_point(D, edge, sep_alfa, k3) ==
    IF ~CanSplitEdge(D, edge) THEN Crash(D)
    ELSE LET sep == NewV(D.g)
             P   == Position(D, Source(D, edge))
             G1  == g_place(g_add_vertex(D.g, "OUT", "SEPPOINT", k3), sep, P, P)
             G2  == [G1 EXCEPT !.vert[sep].alfa = sep_alfa]
         IN  [D EXCEPT !.g = g_add_vertex_in_edge(G2, sep, edge)]

\* a NEW NORMAL vertex at the mid-alfa inside the null edge between two ENDPOINTs
add_mid_vertex(D, edge, mid, k3) ==
    IF ~CanSplitEdge(D, edge) THEN Crash(D)
    ELSE LET new_v == NewV(D.g)
             P     == Position(D, Source(D, edge))
             G1    == g_place(g_add_vertex(D.g, "NEW", "NORMAL", k3), new_v, P, P)
             G2    == [G1 EXCEPT !.vert[new_v].alfa = mid]
         IN  [D EXCEPT !.g = g_add_vertex_in_edge(G2, new_v, edge),
                       !.modified_vertices = @ \cup {new_v}]

\* process_next_null giving the pushed vertex the mid-alfa also when it
\* becomes a SEPPOINT, where line 571 gives it neg_sep_alfa
process_next_null_mid(D, dir_alfa, next_edge, k3) ==
    LET trg          == Target(D, next_edge)
        src          == Source(D, next_edge)
        neg_sep_alfa == alfa_perp(dir_alfa)
        kv           == k3_of(k3)
    IN  IF Type(D, src) # "ENDPOINT" THEN [D |-> Crash(D), sep_point |-> NoV]
        ELSE IF Type(D, trg) = "ENDPOINT"
        THEN IF diangle_bracket(Alfa(D, src), neg_sep_alfa, Alfa(D, trg))
             THEN [D |-> Crash(D), sep_point |-> NoV]
             ELSE [D |-> add_mid_vertex(D, next_edge,
                                        diangle_mid(Alfa(D, src), Alfa(D, trg)), kv),
                   sep_point |-> NoV]
        ELSE IF neg_sep_alfa = Alfa(D, trg) /\ Type(D, trg) = "SEPPOINT"
        THEN [D |-> identical_seppoint(D, trg), sep_point |-> NoV]
        ELSE
        LET tw        == D.g.edge[next_edge].twin
            next_face == IF LiveE(D, tw) THEN D.g.edge[tw].face ELSE NoF
            bracket   == diangle_bracket(Alfa(D, src), neg_sep_alfa, Alfa(D, trg))
        IN  IF ~LiveF(D, next_face) THEN [D |-> Crash(D), sep_point |-> NoV]
            ELSE IF bracket /\ D.g.face[next_face].site = NoSite
            THEN [D |-> Crash(D), sep_point |-> NoV]
            ELSE IF bracket /\ isPoint(D.g.face[next_face].site)
            THEN [D |-> add_sep_point(D, next_edge, neg_sep_alfa, kv),
                  sep_point |-> NewV(D.g)]
            ELSE
            LET next_next == D.g.edge[next_edge].next
            IN  IF ~LiveE(D, next_next) THEN [D |-> Crash(D), sep_point |-> NoV]
                ELSE
                LET next_trg == Target(D, next_next)
                    mid      == diangle_mid(Alfa(D, src), Alfa(D, next_trg))
                    to_sep   == diangle_bracket(neg_sep_alfa, mid, Alfa(D, next_trg))
                IN  [D |-> [D EXCEPT
                              !.g.vert[trg].alfa = mid,
                              !.g.vert[trg].type = IF to_sep THEN "SEPPOINT" ELSE "NORMAL",
                              !.g.vert[trg].status = "NEW",
                              !.g.vert[trg].k3 = kv,
                              !.modified_vertices = @ \cup {trg}],
                     sep_point |-> IF to_sep THEN trg ELSE NoV]

\* [D, sep_point]; dir_alfa is the diangle of the segment direction
process_next_null(D, dir_alfa, next_edge, k3) ==
    LET trg          == Target(D, next_edge)
        src          == Source(D, next_edge)
        neg_sep_alfa == alfa_perp(dir_alfa)
        kv           == k3_of(k3)
    IN  IF Type(D, src) # "ENDPOINT" THEN [D |-> Crash(D), sep_point |-> NoV]
        ELSE IF Type(D, trg) = "ENDPOINT"
        THEN IF diangle_bracket(Alfa(D, src), neg_sep_alfa, Alfa(D, trg))
             THEN [D |-> Crash(D), sep_point |-> NoV]
             ELSE [D |-> add_mid_vertex(D, next_edge,
                                        diangle_mid(Alfa(D, src), Alfa(D, trg)), kv),
                   sep_point |-> NoV]
        ELSE IF neg_sep_alfa = Alfa(D, trg) /\ Type(D, trg) = "SEPPOINT"
        THEN [D |-> identical_seppoint(D, trg), sep_point |-> NoV]
        ELSE
        LET tw        == D.g.edge[next_edge].twin
            next_face == IF LiveE(D, tw) THEN D.g.edge[tw].face ELSE NoF
            bracket   == diangle_bracket(Alfa(D, src), neg_sep_alfa, Alfa(D, trg))
        IN  IF ~LiveF(D, next_face) THEN [D |-> Crash(D), sep_point |-> NoV]
            ELSE IF bracket /\ D.g.face[next_face].site = NoSite
            THEN [D |-> Crash(D), sep_point |-> NoV]
            ELSE IF bracket /\ isPoint(D.g.face[next_face].site)
            THEN [D |-> add_sep_point(D, next_edge, neg_sep_alfa, kv),
                  sep_point |-> NewV(D.g)]
            ELSE
            LET next_next == D.g.edge[next_edge].next
            IN  IF ~LiveE(D, next_next) THEN [D |-> Crash(D), sep_point |-> NoV]
                ELSE
                LET next_trg == Target(D, next_next)
                    mid      == diangle_mid(Alfa(D, src), Alfa(D, next_trg))
                    to_sep   == diangle_bracket(neg_sep_alfa, mid, Alfa(D, next_trg))
                IN  [D |-> [D EXCEPT
                              !.g.vert[trg].alfa = IF to_sep THEN neg_sep_alfa ELSE mid,
                              !.g.vert[trg].type = IF to_sep THEN "SEPPOINT" ELSE "NORMAL",
                              !.g.vert[trg].status = "NEW",
                              !.g.vert[trg].k3 = kv,
                              !.modified_vertices = @ \cup {trg}],
                     sep_point |-> IF to_sep THEN trg ELSE NoV]

\* process_prev_null adding a SEPPOINT without the diangle_bracket test of
\* line 675
process_prev_null_no_room(D, dir_alfa, prev_edge, k3) ==
    LET trg          == Target(D, prev_edge)
        src          == Source(D, prev_edge)
        pos_sep_alfa == alfa_perp_neg(dir_alfa)
        kv           == k3_of(~k3)
    IN  IF Type(D, trg) # "ENDPOINT" THEN [D |-> Crash(D), sep_point |-> NoV]
        ELSE IF Type(D, src) = "ENDPOINT"
        THEN IF diangle_bracket(Alfa(D, src), pos_sep_alfa, Alfa(D, trg))
             THEN [D |-> Crash(D), sep_point |-> NoV]
             ELSE [D |-> add_mid_vertex(D, prev_edge,
                                        diangle_mid(Alfa(D, src), Alfa(D, trg)), kv),
                   sep_point |-> NoV]
        ELSE IF pos_sep_alfa = Alfa(D, src) /\ Type(D, src) = "SEPPOINT"
        THEN [D |-> identical_seppoint(D, src), sep_point |-> NoV]
        ELSE IF TRUE
        THEN [D |-> add_sep_point(D, prev_edge, pos_sep_alfa, kv),
              sep_point |-> NewV(D.g)]
        ELSE IF ~RingOK(D.g, prev_edge) THEN [D |-> Crash(D), sep_point |-> NoV]
        ELSE
        LET prev_prev == g_previous_edge(D.g, prev_edge)
            prev_src  == Source(D, prev_prev)
            mid       == diangle_mid(Alfa(D, prev_src), Alfa(D, trg))
            to_sep    == diangle_bracket(mid, pos_sep_alfa, Alfa(D, trg))
        IN  [D |-> [D EXCEPT
                      !.g.vert[src].alfa = IF to_sep THEN pos_sep_alfa ELSE mid,
                      !.g.vert[src].type = IF to_sep THEN "SEPPOINT" ELSE "NORMAL",
                      !.g.vert[src].status = "NEW",
                      !.g.vert[src].k3 = kv,
                      !.modified_vertices = @ \cup {src}],
             sep_point |-> IF to_sep THEN src ELSE NoV]

\* [D, sep_point]
process_prev_null(D, dir_alfa, prev_edge, k3) ==
    LET trg          == Target(D, prev_edge)
        src          == Source(D, prev_edge)
        pos_sep_alfa == alfa_perp_neg(dir_alfa)
        kv           == k3_of(~k3)
    IN  IF Type(D, trg) # "ENDPOINT" THEN [D |-> Crash(D), sep_point |-> NoV]
        ELSE IF Type(D, src) = "ENDPOINT"
        THEN IF diangle_bracket(Alfa(D, src), pos_sep_alfa, Alfa(D, trg))
             THEN [D |-> Crash(D), sep_point |-> NoV]
             ELSE [D |-> add_mid_vertex(D, prev_edge,
                                        diangle_mid(Alfa(D, src), Alfa(D, trg)), kv),
                   sep_point |-> NoV]
        ELSE IF pos_sep_alfa = Alfa(D, src) /\ Type(D, src) = "SEPPOINT"
        THEN [D |-> identical_seppoint(D, src), sep_point |-> NoV]
        ELSE IF diangle_bracket(Alfa(D, src), pos_sep_alfa, Alfa(D, trg))
        THEN [D |-> add_sep_point(D, prev_edge, pos_sep_alfa, kv),
              sep_point |-> NewV(D.g)]
        ELSE IF ~RingOK(D.g, prev_edge) THEN [D |-> Crash(D), sep_point |-> NoV]
        ELSE
        LET prev_prev == g_previous_edge(D.g, prev_edge)
            prev_src  == Source(D, prev_prev)
            mid       == diangle_mid(Alfa(D, prev_src), Alfa(D, trg))
            to_sep    == diangle_bracket(mid, pos_sep_alfa, Alfa(D, trg))
        IN  [D |-> [D EXCEPT
                      !.g.vert[src].alfa = IF to_sep THEN pos_sep_alfa ELSE mid,
                      !.g.vert[src].type = IF to_sep THEN "SEPPOINT" ELSE "NORMAL",
                      !.g.vert[src].status = "NEW",
                      !.g.vert[src].k3 = kv,
                      !.modified_vertices = @ \cup {src}],
             sep_point |-> IF to_sep THEN src ELSE NoV]

\* the value of left.is_right(a, b) for the point left of insert_line_site,
\* which lies to the left of start -> end: FALSE for that direction, TRUE for
\* the opposite one
left_is_right(a, b, start, end) == ~(a = start /\ b = end)

\* the result of find_null_face where an assert fails
null_face_fail(D, nf) ==
    [D |-> Crash(D), seg |-> NoV, null_face |-> nf, pos_sep |-> NoV, neg_sep |-> NoV]

\* the existing-null-face branch, after process_next_null has returned n:
\* process_prev_null on the edge that reaches the new ENDPOINT
null_face_prev(n, np, nf, seg_start, alfa, k3_sign) ==
    IF ~n.D.ok \/ ~LiveE(n.D, np.prev_edge) THEN null_face_fail(n.D, nf)
    ELSE [D         |-> process_prev_null(n.D, alfa, np.prev_edge, k3_sign).D,
          seg       |-> seg_start,
          null_face |-> nf,
          pos_sep   |-> process_prev_null(n.D, alfa, np.prev_edge, k3_sign).sep_point,
          neg_sep   |-> n.sep_point]

\* the existing-null-face branch, after find_next_prev has returned np
null_face_next(D2, np, nf, seg_start, alfa, k3_sign) ==
    IF ~np.ok THEN null_face_fail(D2, nf)
    ELSE IF D2.g.edge[np.prev_edge].next # np.next_edge THEN null_face_fail(D2, nf)
    ELSE null_face_prev(process_next_null(D2, alfa, np.next_edge, k3_sign),
                        np, nf, seg_start, alfa, k3_sign)

\* the existing-null-face branch, with seg_start inside the edge
null_face_split(D2, nf, seg_start, alfa, k3_sign) ==
    null_face_next(D2, find_next_prev(D2, nf, seg_start), nf, seg_start, alfa, k3_sign)

\* the existing-null-face branch, with the new ENDPOINT seg_start in the graph
\* of D1: it goes into the edge of the null face whose end alfas bracket alfa
null_face_insert(D1, nf, seg_start, alfa, k3_sign) ==
    IF ~FaceRingOK(D1, nf) THEN null_face_fail(D1, nf)
    ELSE
    LET r == FaceRing(D1, nf)
        I == { i \in 1 .. Len(r) :
                 diangle_bracket(Alfa(D1, Source(D1, r[i])), alfa,
                                 Alfa(D1, Target(D1, r[i]))) }
    IN  IF I = {} THEN null_face_fail(D1, nf)
        ELSE IF ~CanSplitEdge(D1, r[CHOOSE i \in I : \A j \in I : i <= j])
        THEN null_face_fail(D1, nf)
        ELSE null_face_split([D1 EXCEPT !.g = g_add_vertex_in_edge(
                                  @, seg_start, r[CHOOSE i \in I : \A j \in I : i <= j])],
                             nf, seg_start, alfa, k3_sign)

\* find_null_face_existing with the new ENDPOINT given the alfa of the
\* positive separator, where line 741 gives it the alfa of the segment
find_null_face_existing_perp(D, start, alfa, k3_sign) ==
    null_face_insert(
        [D EXCEPT !.g = [g_place(g_add_vertex(D.g, "OUT", "ENDPOINT", 0), NewV(D.g),
                                 Position(D, start), Position(D, start))
                           EXCEPT !.vert[NewV(D.g)].alfa = alfa_perp(alfa)]],
        D.g.vert[start].null_face, NewV(D.g), alfa, k3_sign)

\* the existing-null-face branch: a new ENDPOINT at the position of start
find_null_face_existing(D, start, alfa, k3_sign) ==
    null_face_insert(
        [D EXCEPT !.g = [g_place(g_add_vertex(D.g, "OUT", "ENDPOINT", 0), NewV(D.g),
                                 Position(D, start), Position(D, start))
                           EXCEPT !.vert[NewV(D.g)].alfa = alfa]],
        D.g.vert[start].null_face, NewV(D.g), alfa, k3_sign)

\* the new-null-face branch: neg_sep -> seg_endp -> pos_sep
find_null_face_new(D, start, alfa, k3_sign) ==
    LET G               == D.g
        start_null_face == NewF(G)
        G1              == g_add_face(G)
        seg_start       == G.nv + 1
        pos_sep_start   == G.nv + 2
        neg_sep_start   == G.nv + 3
        P  == Position(D, start)
        G2 == g_place(g_add_vertex(G1, "OUT", "ENDPOINT", 0), seg_start, P, P)
        G3 == g_place(g_add_vertex(G2, "OUT", "SEPPOINT", k3_of(k3_sign)),
                      pos_sep_start, P, P)
        G4 == g_place(g_add_vertex(G3, "OUT", "SEPPOINT", k3_of(~k3_sign)),
                      neg_sep_start, P, P)
        G5 == [G4 EXCEPT !.vert[seg_start].alfa = alfa,
                         !.vert[pos_sep_start].alfa = alfa_perp(alfa),
                         !.vert[neg_sep_start].alfa = alfa_perp_neg(alfa)]
        e1    == G.ne + 1
        e1_tw == G.ne + 2
        e2    == G.ne + 3
        e2_tw == G.ne + 4
        e3    == G.ne + 5
        e3_tw == G.ne + 6
        G6 == g_add_twin_edges(
                  g_add_twin_edges(
                      g_add_twin_edges(G5, seg_start, pos_sep_start),
                      pos_sep_start, neg_sep_start),
                  neg_sep_start, seg_start)
        start_face == G.vert[start].face
    IN  IF start_face \notin DOMAIN G.face
        THEN [D |-> Crash(D), seg |-> NoV, null_face |-> NoF,
              pos_sep |-> NoV, neg_sep |-> NoV]
        ELSE
        LET start_face_edge == G.face[start_face].edge
            G7 == g_set_next_cycle(G6, <<e1, e2, e3>>, start_null_face, 1)
            G8 == g_set_next_cycle(G7, <<e3_tw, e2_tw, e1_tw>>, start_face, 1)
            G9 == [G8 EXCEPT
                     !.face[start_null_face].edge = e1,
                     !.face[start_face].edge = start_face_edge,
                     !.edge = [e \in DOMAIN @ |->
                                 IF e \in {e1, e2, e3, e1_tw, e2_tw, e3_tw}
                                 THEN [@[e] EXCEPT !.type = "NULLEDGE"] ELSE @[e]],
                     !.vert[start].null_face = start_null_face]
        IN  [D |-> [D EXCEPT !.g = G9], seg |-> seg_start,
             null_face |-> start_null_face,
             pos_sep |-> pos_sep_start, neg_sep |-> neg_sep_start]

\* find_null_face without g[start].null_face = start_null_face
find_null_face_unrecorded(D, start, other, k3_sign) ==
    LET A    == Position(D, start)
        B    == Position(D, other)
        alfa == diangle(B[1] - A[1], B[2] - A[2])
    IN  IF D.g.vert[start].null_face # NoF
        THEN find_null_face_existing(D, start, alfa, k3_sign)
        ELSE \* the record of find_null_face_new with the field null_face of start cleared
             [find_null_face_new(D, start, alfa, k3_sign)
                EXCEPT !.D.g.vert[start].null_face = NoF]

\* [D, seg, null_face, pos_sep, neg_sep]
find_null_face(D, start, other, k3_sign) ==
    LET A    == Position(D, start)
        B    == Position(D, other)
        alfa == diangle(B[1] - A[1], B[2] - A[2])
    IN  IF D.g.vert[start].null_face # NoF
        THEN find_null_face_existing(D, start, alfa, k3_sign)
        ELSE find_null_face_new(D, start, alfa, k3_sign)

-----------------------------------------------------------------------------
(* add_linesite_edges, find_pointsite_face *)

\* [D, pos_face, neg_face]; start and end are the POINTSITE vertices whose
\* positions the ends of the line sites have
add_linesite_edges(D, seg_start, seg_end, start, end, linesite_k_sign) ==
    LET G        == D.g
        pos_site == IF linesite_k_sign THEN LineSite(start, end, 1)
                    ELSE LineSite(end, start, 1)
        neg_site == IF linesite_k_sign THEN LineSite(end, start, -1)
                    ELSE LineSite(start, end, -1)
        G1       == IF linesite_k_sign THEN g_add_twin_edges(G, seg_start, seg_end)
                    ELSE g_add_twin_edges(G, seg_end, seg_start)
        pos_edge == G.ne + 1
        neg_edge == G.ne + 2
        pos_face == G.nf + 1
        neg_face == G.nf + 2
        D1 == [D EXCEPT !.g = [G1 EXCEPT !.edge[pos_edge].type = "LINESITE",
                                         !.edge[neg_edge].type = "LINESITE",
                                         !.edge[pos_edge].k = 1,
                                         !.edge[neg_edge].k = -1]]
        D2 == add_face(add_face(D1, pos_site), neg_site)
    IN  [D |-> [D2 EXCEPT !.g.face[pos_face].edge = pos_edge,
                          !.g.face[neg_face].edge = neg_edge,
                          !.g.edge[pos_edge].face = pos_face,
                          !.g.edge[neg_edge].face = neg_face],
         pos_face |-> pos_face, neg_face |-> neg_face]

\* the face across the last edge of the ring of start_edge whose twin lies on
\* a point-site face; the face across start_edge if there is none.
\* NoF where the walk meets a missing edge or face.
find_pointsite_face(D, start_edge) ==
    IF ~LiveE(D, start_edge) \/ ~RingOK(D.g, start_edge) THEN NoF
    ELSE LET r == Ring(D.g, start_edge)
         IN  IF \E i \in 1 .. Len(r) :
                   \/ ~LiveE(D, D.g.edge[r[i]].twin)
                   \/ ~LiveF(D, D.g.edge[D.g.edge[r[i]].twin].face)
             THEN NoF
             ELSE LET TwinFace(e) == D.g.edge[D.g.edge[e].twin].face
                      last == LastWhere(r, LAMBDA e : isPoint(D.g.face[TwinFace(e)].site))
                  IN  IF last = NoE THEN TwinFace(start_edge) ELSE TwinFace(last)

-----------------------------------------------------------------------------
(* mark_adjacent_faces, add_split_vertex, find_split_edges for a line site *)

\* g.adjacent_faces(v): the faces of the half-edges leaving v, each once
g_adjacent_faces(G, v) == SortedSeq({ G.edge[e].face : e \in SeqSet(g_out_edges(G, v)) })

\* the assert at the start of mark_adjacent_faces
mark_adjacent_faces_ok(D, v) ==
    LET n == Len(g_adjacent_faces(D.g, v))
    IN  \/ Type(D, v) = "APEX" /\ n = 2
        \/ Type(D, v) = "SPLIT" /\ n = 2
        \/ n = 3

\* does add_split_vertex(f, s) look for split edges: f belongs to a point
\* site which is not an end of s and lies in the region of s
wants_split(D, f, s) ==
    LET fs == D.g.face[f].site
    IN  /\ isPoint(fs)
        /\ Position(D, fs.a) # Position(D, s.a)
        /\ Position(D, fs.a) # Position(D, s.b)
        /\ InRegionPos(D, s, fs.a)

\* pt1 and pt2 of add_split_vertex: the site of f, and the site moved by the
\* normal (a, b) of the line of s
SplitLine(D, f, s) ==
    LET pt1 == Position(D, D.g.face[f].site.a)
        A   == Position(D, s.a)
        B   == Position(D, s.b)
    IN  <<pt1, <<pt1[1] - (A[2] - B[2]), pt1[2] - (B[1] - A[1])>> >>

\* the values is_right(pt1, pt2) may return for the vertices of the ring of f
SideDraws(D, f, pt) ==
    LET r == FaceRing(D, f)
        V == { Source(D, r[i]) : i \in 1 .. Len(r) } \cup { Target(D, r[i]) : i \in 1 .. Len(r) }
    IN  Product([v \in V |-> IsRightVals(Position(D, v), pt[1], pt[2])])

\* find_split_edges: the edges of f whose two ends is_right (side) puts on
\* different sides of pt1-pt2
find_split_edges(D, f, side) ==
    SelectSeq(FaceRing(D, f),
              LAMBDA e : /\ Type(D, Source(D, e)) \in {"NORMAL", "APEX", "SPLIT"}
                         /\ side[Source(D, e)] # side[Target(D, e)])

\* may the root bracket of split_edge fail: an end of the edge is on the
\* line pt1-pt2, or the model has no position for it
BracketMayFail(D, split_edge, pt) ==
    \E v \in {Source(D, split_edge), Target(D, split_edge)} :
       \/ Position(D, v) = NoPos
       \/ Abs(Cross(pt[1], pt[2], Position(D, v))) <= Eps * Dist(pt[1], pt[2])

\* the numbers n of leading split edges for which the root bracket is found
BracketDraws(D, split_edges, pt) ==
    { n \in 0 .. Len(split_edges) :
        n < Len(split_edges) => BracketMayFail(D, split_edges[n + 1], pt) }

\* split_pt_pos: where the edge meets pt1-pt2; the model has it for the
\* straight edge between two point sites
SplitPos(D, split_edge, pt) ==
    IF D.g.edge[split_edge].type # "LINE" THEN NoPos
    ELSE RootOnEdge(LAMBDA p : Cross(pt[1], pt[2], p),
                    Position(D, Source(D, split_edge)),
                    Position(D, Target(D, split_edge)))

\* the loop over split_edges with continue where lines 1130 and 1155 have
\* return: edge n + 1, for which no root bracket is found, is passed over
RECURSIVE SplitLoop_continue(_, _, _, _, _)
SplitLoop_continue(D, split_edges, m, n, pt) ==
    IF ~D.ok \/ m > Len(split_edges) THEN D
    ELSE LET split_edge == split_edges[m]
         IN  IF ~LiveE(D, split_edge) THEN Crash(D)
             ELSE IF D.g.edge[split_edge].type \in {"SEPARATOR", "LINESITE"} \/ m = n + 1
             THEN SplitLoop_continue(D, split_edges, m + 1, n, pt)
             ELSE IF ~CanSplitEdge(D, split_edge) THEN Crash(D)
             ELSE LET v  == NewV(D.g)
                      G1 == g_place(g_add_vertex(D.g, "UNDECIDED", "SPLIT", 0), v,
                                    SplitPos(D, split_edge, pt), pt[1])
                  IN  SplitLoop_continue([D EXCEPT !.g = g_add_vertex_in_edge(G1, v, split_edge)],
                                         split_edges, m + 1, n, pt)

\* the loop over split_edges; the root bracket is found for the first n edges
RECURSIVE SplitLoop(_, _, _, _, _)
SplitLoop(D, split_edges, m, n, pt) ==
    IF ~D.ok \/ m > Len(split_edges) THEN D
    ELSE LET split_edge == split_edges[m]
         IN  IF ~LiveE(D, split_edge) THEN Crash(D)
             ELSE IF D.g.edge[split_edge].type \in {"SEPARATOR", "LINESITE"} THEN D
             ELSE IF m > n THEN D
             ELSE IF ~CanSplitEdge(D, split_edge) THEN Crash(D)
             ELSE LET v  == NewV(D.g)
                      G1 == g_place(g_add_vertex(D.g, "UNDECIDED", "SPLIT", 0), v,
                                    SplitPos(D, split_edge, pt), pt[1])
                  IN  SplitLoop([D EXCEPT !.g = g_add_vertex_in_edge(G1, v, split_edge)],
                                split_edges, m + 1, n, pt)

\* the call add_split_vertex(f, s) as split_calls keeps it: the face, the
\* edges find_split_edges returned, and those of them at which the loop
\* returns or may return (a SEPARATOR or LINESITE edge, a root bracket that
\* may fail)
SplitCall(D, f, s, side) ==
    LET es == find_split_edges(D, f, side)
    IN  [f |-> f, edges |-> es,
         stop |-> { e \in SeqSet(es) :
                      \/ D.g.edge[e].type \in {"SEPARATOR", "LINESITE"}
                      \/ BracketMayFail(D, e, SplitLine(D, f, s)) }]

add_split_vertex(D, f, s, side, n) ==
    IF ~LiveF(D, f) THEN Crash(D)
    ELSE IF D.g.face[f].site = NoSite THEN Crash(D)
    ELSE IF ~wants_split(D, f, s) THEN D
    ELSE IF ~FaceRingOK(D, f) THEN Crash(D)
    ELSE SplitLoop([D EXCEPT !.split_calls = Append(@, SplitCall(D, f, s, side))],
                   find_split_edges(D, f, side), 1, n, SplitLine(D, f, s))

\* one iteration of the loop of mark_adjacent_faces
mark_adjacent_face(D, adj_face, s, side, n) ==
    IF ~LiveF(D, adj_face) THEN Crash(D)
    ELSE IF D.g.face[adj_face].status = "INCIDENT" THEN D
    ELSE LET D1 == add_split_vertex(D, adj_face, s, side, n)
         IN  IF ~D1.ok THEN D1
             ELSE [D1 EXCEPT !.g.face[adj_face].status = "INCIDENT",
                             !.incident_faces = Append(@, adj_face)]

-----------------------------------------------------------------------------
(* find_separator_target, add_separator *)

NoTarget == [ok |-> TRUE, v_previous |-> NoE, v_target |-> NoV, v_next |-> NoE,
             flag |-> FALSE]

find_separator_target(D, f, endp) ==
    IF endp = NoV THEN NoTarget
    ELSE IF ~LiveV(D, endp) \/ ~FaceRingOK(D, f) THEN [NoTarget EXCEPT !.ok = FALSE]
    ELSE
    LET r == FaceRing(D, f)
        OutNewIn(i) == /\ Status(D, Source(D, r[i])) = "OUT"
                       /\ Status(D, Target(D, r[i])) = "NEW"
                       /\ Status(D, Target(D, Cyc(r, i + 1))) = "IN"
        InNewOut(i) == /\ Status(D, Source(D, r[i])) = "IN"
                       /\ Status(D, Target(D, r[i])) = "NEW"
                       /\ Status(D, Target(D, Cyc(r, i + 1))) = "OUT"
        I == { i \in 1 .. Len(r) :
                 /\ OutNewIn(i) \/ InNewOut(i)
                 /\ D.g.vert[endp].k3 = D.g.vert[Target(D, r[i])].k3
                 /\ endp # Target(D, r[i]) }
    IN  IF I = {} THEN [NoTarget EXCEPT !.ok = FALSE]
        ELSE LET i == CHOOSE x \in I : \A y \in I : x <= y
             IN  [ok |-> TRUE, v_previous |-> r[i], v_target |-> Target(D, r[i]),
                  v_next |-> Cyc(r, i + 1), flag |-> OutNewIn(i)]

g_set_face(G, e, f) == [G EXCEPT !.edge[e].face = f]
g_set_k(G, e, k) == [G EXCEPT !.edge[e].k = k]
g_set_face_edge(G, f, e) == [G EXCEPT !.face[f].edge = e]

\* add_twin_edges(sep_endp, v_target) without the two type = SEPARATOR
\* assignments of lines 877-878
separator_pair_untyped(G, sep_endp, v_target) == g_add_twin_edges(G, sep_endp, v_target)

\* the twin pair of SEPARATOR edges from sep_endp to v_target
separator_pair(G, sep_endp, v_target) ==
    [g_add_twin_edges(G, sep_endp, v_target)
       EXCEPT !.edge[G.ne + 1].type = "SEPARATOR", !.edge[G.ne + 2].type = "SEPARATOR"]

\* the separator e2 / e2_tw from sep_endp to v_target and its links; lf is
\* the face of the line site on the side of the separator, endp_prev and
\* endp_next the twins of the null edges at sep_endp
separator_links(D, f, target, sep_endp, lf, endp_prev, endp_next) ==
    LET G          == D.g
        v_previous == target.v_previous
        v_target   == target.v_target
        v_next     == target.v_next
        k3         == G.vert[v_target].k3
        e2         == G.ne + 1
        e2_tw      == G.ne + 2
    IN  IF ~LiveE(D, endp_prev) \/ ~LiveE(D, endp_next) THEN Crash(D)
        ELSE IF k3 \notin {1, -1} \/ G.vert[sep_endp].k3 # k3 THEN Crash(D)
        ELSE IF ~LiveF(D, lf) \/ ~LiveF(D, f) THEN Crash(D)
        ELSE IF target.flag
        THEN \* OUT-NEW-IN: e2 is on the segment side
             [D EXCEPT !.g =
                g_set_next(
                 g_set_k(g_set_face(
                  g_set_next(g_set_next(
                   g_set_face(g_set_face_edge(g_set_face(
                    g_set_k(
                     g_set_face_edge(g_set_face(
                      g_set_k(g_set_k(
                       separator_pair(G, sep_endp, v_target),
                       e2, k3), e2_tw, 1),
                      e2_tw, f), f, e2_tw),
                     endp_prev, k3),
                    e2, lf), lf, e2), endp_prev, lf),
                   v_previous, e2_tw), e2_tw, endp_next),
                  endp_next, f), endp_next, 1),
                 e2, v_next)]
        ELSE \* IN-NEW-OUT: e2 is on the point-site side
             [D EXCEPT !.g =
                g_set_next(g_set_next(
                 g_set_k(g_set_face(
                  g_set_next(
                   g_set_face(g_set_face_edge(g_set_face(
                    g_set_k(
                     g_set_face_edge(g_set_face(
                      g_set_k(g_set_k(
                       separator_pair(G, sep_endp, v_target),
                       e2, 1), e2_tw, k3),
                      e2, f), f, e2),
                     endp_next, k3),
                    e2_tw, lf), lf, e2_tw), endp_next, lf),
                   v_previous, e2_tw),
                  endp_prev, f), endp_prev, 1),
                 endp_prev, e2), e2, v_next)]

\* add_separator with the faces of the two line sites exchanged
separator_at_swapped(D, f, target, sep_endp, s1_face, s2_face, np) ==
    IF ~np.ok THEN Crash(D)
    ELSE separator_links(D, f, target, sep_endp,
                         IF D.g.vert[target.v_target].k3 = -1 THEN s1_face ELSE s2_face,
                         D.g.edge[np.next_edge].twin, D.g.edge[np.prev_edge].twin)

\* add_separator after find_next_prev has returned np
separator_at(D, f, target, sep_endp, s1_face, s2_face, np) ==
    IF ~np.ok THEN Crash(D)
    ELSE separator_links(D, f, target, sep_endp,
                         IF D.g.vert[target.v_target].k3 = -1 THEN s2_face ELSE s1_face,
                         D.g.edge[np.next_edge].twin, D.g.edge[np.prev_edge].twin)

\* the edges add_separator makes; s1_face and s2_face are the faces of the
\* positive and the negative line site
SeparatorEdges(D, f, null_face, target, sep_endp, s1_face, s2_face) ==
    IF sep_endp = NoV THEN D
    ELSE IF ~target.ok THEN Crash(D)
    ELSE IF ~LiveV(D, sep_endp) \/ D.g.vert[sep_endp].k3 \notin {1, -1} THEN Crash(D)
    ELSE separator_at(D, f, target, sep_endp, s1_face, s2_face,
                      find_next_prev(D, null_face, sep_endp))

\* the values the two asserts s1->in_region(g[v_target].position) and
\* s2->in_region(g[v_target].position) may take together
SeparatorRegionVals(D, v_target, s1_face, s2_face) ==
    IF ~LiveV(D, v_target) \/ ~LiveF(D, s1_face) \/ ~LiveF(D, s2_face) THEN {FALSE}
    ELSE { a /\ b : a \in InRegionVals(D, D.g.face[s1_face].site, v_target),
                    b \in InRegionVals(D, D.g.face[s2_face].site, v_target) }

\* the outcomes of add_separator
add_separator(D, f, null_face, target, sep_endp, s1_face, s2_face) ==
    IF sep_endp = NoV THEN {D}
    ELSE UNION {
           IF ~D1.ok THEN {Crash(D)}
           ELSE { IF pass THEN D1 ELSE Crash(D) :
                  pass \in SeparatorRegionVals(D, target.v_target, s1_face, s2_face) } :
           D1 \in {SeparatorEdges(D, f, null_face, target, sep_endp, s1_face, s2_face)} }

-----------------------------------------------------------------------------
(* remove_split_vertex, find_split_vertex *)

\* g.remove_deg2_vertex(v): v1 <-> v <-> v2 becomes v1 <-> v2.  The new edges
\* take the properties of the edges they replace.
g_remove_deg2_vertex(G, v) ==
    LET v_edges == g_out_edges(G, v)
        o1      == v_edges[1]
        o2      == v_edges[2]
        v1      == G.edge[o1].trg
        v2      == G.edge[o2].trg
        v1_next == G.edge[o1].next
        v1_prev == g_previous_edge(G, G.edge[o1].twin)
        v2_next == G.edge[o2].next
        v2_prev == g_previous_edge(G, G.edge[o2].twin)
        face1   == G.edge[o2].face
        face2   == G.edge[o1].face
        new1    == G.ne + 1
        new2    == G.ne + 2
        G1      == g_add_twin_edges(G, v1, v2)
        G2      == [G1 EXCEPT
                      !.edge[new1] = [G.edge[o2] EXCEPT !.src = v1, !.trg = v2, !.twin = new2,
                                                        !.next = v2_next, !.face = face1],
                      !.edge[new2] = [G.edge[o1] EXCEPT !.src = v2, !.trg = v1, !.twin = new1,
                                                        !.next = v1_next, !.face = face2]]
        G3      == g_set_next(g_set_next(G2, v2_prev, new2), v1_prev, new1)
        G4      == g_set_face_edge(g_set_face_edge(G3, face1, new1), face2, new2)
    IN  g_delete_vertex(G4, v)

\* g.remove_deg2_vertex can run
CanRemoveDeg2(D, v) ==
    LET v_edges == g_out_edges(D.g, v)
    IN  /\ Len(v_edges) = 2
        /\ \A i \in 1 .. 2 :
              /\ LiveE(D, D.g.edge[v_edges[i]].twin)
              /\ RingOK(D.g, D.g.edge[v_edges[i]].twin)
              /\ LiveE(D, D.g.edge[v_edges[i]].next)
              /\ LiveF(D, D.g.edge[v_edges[i]].face)

\* find_split_vertex that finds none
find_split_vertex_none(D, f) == NoV

\* the first SPLIT vertex on the ring of f, NoV if there is none
find_split_vertex(D, f) ==
    LET r == FaceRing(D, f)
        I == { i \in 1 .. Len(r) : Type(D, Target(D, r[i])) = "SPLIT" }
    IN  IF I = {} THEN NoV
        ELSE Target(D, r[CHOOSE i \in I : \A j \in I : i <= j])

RECURSIVE remove_split_vertex(_, _)
remove_split_vertex(D, f) ==
    IF ~D.ok THEN D
    ELSE IF ~FaceRingOK(D, f) THEN Crash(D)
    ELSE LET v == find_split_vertex(D, f)
         IN  IF v = NoV THEN D
             ELSE IF ~CanRemoveDeg2(D, v) THEN Crash(D)
             ELSE remove_split_vertex([D EXCEPT !.g = g_remove_deg2_vertex(@, v),
                                                !.modified_vertices = @ \ {v}], f)

RECURSIVE RemoveSplitLoop(_, _)
RemoveSplitLoop(D, i) ==
    IF ~D.ok \/ i > Len(D.incident_faces) THEN D
    ELSE RemoveSplitLoop(remove_split_vertex(D, D.incident_faces[i]), i + 1)

-----------------------------------------------------------------------------
(* repair_face *)

\* may the walk of repair_face go to the target of e
RepairCandidate(D, current_edge, e) ==
    LET out_target == Target(D, e)
    IN  /\ out_target # Source(D, current_edge)
        /\ \/ Status(D, out_target) = "NEW"
           \/ Type(D, out_target) = "ENDPOINT"
           \/ Type(D, out_target) = "SEPPOINT"

\* the brute-force face assignment for a null-edge or a zero-point-face edge
RepairOverride(D, current_edge, e) ==
    LET current_target == Target(D, current_edge)
        current_source == Source(D, current_edge)
        out_target     == Target(D, e)
    IN  \/ /\ D.g.edge[e].type = "NULLEDGE"
           /\ D.g.edge[current_edge].type # "NULLEDGE"
           /\ \/ Type(D, current_target) = "SEPPOINT" /\ Type(D, out_target) = "ENDPOINT"
              \/ Type(D, current_source) = "ENDPOINT" /\ Type(D, current_target) = "ENDPOINT"
              \/ out_target = D.segment_start
              \/ out_target = D.segment_end
           /\ D.g.edge[e].face # D.null_face1
           /\ D.g.edge[e].face # D.null_face2
        \/ D.g.edge[e].face = D.zero_point_face

\* RepairOutEdges that assigns the face to every out-edge towards another
\* vertex than the one the walk came from
RECURSIVE RepairOutEdges_brute(_, _, _, _, _, _)
RepairOutEdges_brute(D, f, current_edge, es, i, found) ==
    IF ~D.ok THEN [D |-> D, found |-> found]
    ELSE IF i > Len(es) THEN [D |-> D, found |-> found]
    ELSE LET e == es[i]
         IN  IF Target(D, e) = Source(D, current_edge)
             THEN RepairOutEdges_brute(D, f, current_edge, es, i + 1, found)
             ELSE LET D1 == [D EXCEPT !.g.edge[e].face = f,
                                      !.g.edge[e].k = D.g.edge[current_edge].k]
                  IN  RepairOutEdges_brute([D1 EXCEPT !.g.edge[current_edge].next = e],
                                           f, current_edge, es, i + 1, TRUE)

\* the loop over the out-edges of the target of current_edge
RECURSIVE RepairOutEdges(_, _, _, _, _, _)
RepairOutEdges(D, f, current_edge, es, i, found) ==
    IF ~D.ok THEN [D |-> D, found |-> found]
    ELSE IF i > Len(es) THEN [D |-> D, found |-> found]
    ELSE LET e == es[i]
         IN  IF ~RepairCandidate(D, current_edge, e)
             THEN RepairOutEdges(D, f, current_edge, es, i + 1, found)
             ELSE LET D1 == IF RepairOverride(D, current_edge, e)
                            THEN [D EXCEPT !.g.edge[e].face = f,
                                           !.g.edge[e].k = D.g.edge[current_edge].k]
                            ELSE D
                  IN  IF D1.g.edge[e].face = f
                      THEN IF D1.g.edge[current_edge].k # D1.g.edge[e].k
                           THEN [D |-> Crash(D1), found |-> TRUE]
                           ELSE RepairOutEdges([D1 EXCEPT !.g.edge[current_edge].next = e],
                                               f, current_edge, es, i + 1, TRUE)
                      ELSE RepairOutEdges(D1, f, current_edge, es, i + 1, found)

\* the do-while loop; n counts the edges visited (a walk that never returns to
\* start_edge does not terminate: the call does not complete)
RECURSIVE RepairWalk(_, _, _, _, _)
RepairWalk(D, f, current_edge, start_edge, n) ==
    IF ~D.ok THEN D
    ELSE IF ~LiveE(D, current_edge) THEN Crash(D)
    ELSE IF n > 2 * Cardinality(DOMAIN D.g.edge) THEN Crash(D)
    ELSE LET r  == RepairOutEdges(D, f, current_edge,
                                  g_out_edges(D.g, Target(D, current_edge)), 1, FALSE)
             D1 == r.D
         IN  IF ~D1.ok \/ ~r.found THEN Crash(D1)
             ELSE IF D1.g.edge[current_edge].next = start_edge THEN D1
             ELSE RepairWalk(D1, f, D1.g.edge[current_edge].next, start_edge, n + 1)

\* repair_face that leaves the next pointers as they are
repair_face_skipped(D, f) == D

repair_face(D, f) ==
    IF ~D.ok THEN D
    ELSE IF ~LiveF(D, f) THEN Crash(D)
    ELSE RepairWalk(D, f, D.g.face[f].edge, D.g.face[f].edge, 0)

-----------------------------------------------------------------------------
(* remove_vertex_set, reset_status *)

RECURSIVE RemoveLoop(_, _)
RemoveLoop(D, i) ==
    IF ~D.ok \/ i > Len(D.v0) THEN D
    ELSE LET v == D.v0[i]
         IN  IF ~LiveV(D, v) THEN Crash(D)
             ELSE IF Status(D, v) # "IN" THEN Crash(D)
             ELSE RemoveLoop([D EXCEPT !.g = g_delete_vertex(@, v),
                                       !.modified_vertices = @ \ {v}],
                             i + 1)

\* remove_vertex_set that deletes nothing
remove_vertex_set_skipped(D) == D

remove_vertex_set(D) == RemoveLoop(D, 1)

\* VoronoiVertex::reset
vertex_reset(vp) == [vp EXCEPT !.status = "UNDECIDED", !.in_queue = FALSE]

\* reset_status without the loop over modified_vertices
reset_status_faces_only(D) ==
    IF ~D.ok THEN D
    ELSE IF ~(SeqSet(D.incident_faces) \subseteq DOMAIN D.g.face) THEN Crash(D)
    ELSE [D EXCEPT
            !.g.face = [x \in DOMAIN @ |->
                          IF x \in SeqSet(D.incident_faces)
                          THEN [@[x] EXCEPT !.status = "NONINCIDENT"] ELSE @[x]],
            !.modified_vertices = {},
            !.incident_faces = <<>>,
            !.v0 = <<>>]

reset_status(D) ==
    IF ~D.ok THEN D
    ELSE IF ~(D.modified_vertices \subseteq DOMAIN D.g.vert) THEN Crash(D)
    ELSE IF ~(SeqSet(D.incident_faces) \subseteq DOMAIN D.g.face) THEN Crash(D)
    ELSE [D EXCEPT
            !.g.vert = [x \in DOMAIN @ |->
                          IF x \in D.modified_vertices THEN vertex_reset(@[x]) ELSE @[x]],
            !.g.face = [x \in DOMAIN @ |->
                          IF x \in SeqSet(D.incident_faces)
                          THEN [@[x] EXCEPT !.status = "NONINCIDENT"] ELSE @[x]],
            !.modified_vertices = {},
            !.incident_faces = <<>>,
            !.v0 = <<>>]

-----------------------------------------------------------------------------
(* The initial frame: VoronoiDiagram::VoronoiDiagram and initialize *)

\* vertices, in the order initialize adds them:
\* v00, v01, v02, v03, gen1, gen2, gen3, a1, a2, a3
InitVertexTable ==
    << <<"UNDECIDED", "NORMAL">>, <<"OUT", "OUTER">>, <<"OUT", "OUTER">>,
       <<"OUT", "OUTER">>, <<"OUT", "POINTSITE">>, <<"OUT", "POINTSITE">>,
       <<"OUT", "POINTSITE">>, <<"UNDECIDED", "APEX">>, <<"UNDECIDED", "APEX">>,
       <<"UNDECIDED", "APEX">> >>

\* InitEdgeTable with the twin of e1_1 and of e9_2 set one way only: e1_1
\* names e9_2 as its twin, e9_2 names e9_1
InitEdgeTableOneWay ==
    << <<1, 8, "LINE", 15>>,  <<8, 2, "LINE", 14>>,  <<2, 3, "OUTEDGE", NoE>>,
       <<3, 9, "LINE", 7>>,   <<9, 1, "LINE", 6>>,
       <<1, 9, "LINE", 5>>,   <<9, 3, "LINE", 4>>,   <<3, 4, "OUTEDGE", NoE>>,
       <<4, 10, "LINE", 12>>, <<10, 1, "LINE", 11>>,
       <<1, 10, "LINE", 10>>, <<10, 4, "LINE", 9>>,  <<4, 2, "OUTEDGE", NoE>>,
       <<2, 8, "LINE", 2>>,   <<8, 1, "LINE", 14>> >>

\* InitEdgeTable with e2 typed LINE
InitEdgeTableLineOnly ==
    << <<1, 8, "LINE", 15>>,  <<8, 2, "LINE", 14>>,  <<2, 3, "LINE", NoE>>,
       <<3, 9, "LINE", 7>>,   <<9, 1, "LINE", 6>>,
       <<1, 9, "LINE", 5>>,   <<9, 3, "LINE", 4>>,   <<3, 4, "OUTEDGE", NoE>>,
       <<4, 10, "LINE", 12>>, <<10, 1, "LINE", 11>>,
       <<1, 10, "LINE", 10>>, <<10, 4, "LINE", 9>>,  <<4, 2, "OUTEDGE", NoE>>,
       <<2, 8, "LINE", 2>>,   <<8, 1, "LINE", 1>> >>

\* half-edges, in the order initialize adds them: <<source, target, type, twin>>
\* e1_1 e1_2 e2 e3_1 e3_2 | e4_1 e4_2 e5 e6_1 e6_2 | e7_1 e7_2 e8 e9_1 e9_2
InitEdgeTable ==
    << <<1, 8, "LINE", 15>>,  <<8, 2, "LINE", 14>>,  <<2, 3, "OUTEDGE", NoE>>,
       <<3, 9, "LINE", 7>>,   <<9, 1, "LINE", 6>>,
       <<1, 9, "LINE", 5>>,   <<9, 3, "LINE", 4>>,   <<3, 4, "OUTEDGE", NoE>>,
       <<4, 10, "LINE", 12>>, <<10, 1, "LINE", 11>>,
       <<1, 10, "LINE", 10>>, <<10, 4, "LINE", 9>>,  <<4, 2, "OUTEDGE", NoE>>,
       <<2, 8, "LINE", 2>>,   <<8, 1, "LINE", 1>> >>

\* face of the i-th initial half-edge, and its successor in set_next_cycle
InitEdgeFace(i) == ((i - 1) \div 5) + 1
InitEdgeNext(i) == IF i % 5 = 0 THEN i - 4 ELSE i + 1

\* the positions, in units of 1/Scale with far_radius = FarRadius and
\* sqrt(3)/2 taken as 0.866: v00 at the origin, the OUTER vertices at
\* 6 * 3 * far_radius, the generators at 3 * far_radius, the APEX vertices half
\* way between two generators
InitPosTable ==
    << <<0, 0>>, <<0, -1440>>, <<1247, 720>>, <<-1247, 720>>,
       <<0, 240>>, <<-208, -120>>, <<208, -120>>,
       <<0, -120>>, <<104, 60>>, <<-104, 60>> >>

\* the vertex whose position the clearance radius is taken from, NoV for none:
\* gen1, gen3, gen1, gen2 for v00 .. v03 and gen2, gen3, gen1 for a1 .. a3
InitRefTable == <<5, 7, 5, 6, NoV, NoV, NoV, 6, 7, 5>>

\* InitFaceSite with no site given to f3
InitFaceSiteTwo(f) == IF f = 3 THEN NoSite ELSE PointSite(IF f = 1 THEN 7 ELSE 5)

\* the site of the initial face f: f1 encloses gen3 (vertex 7), f2 gen1
\* (vertex 5), f3 gen2 (vertex 6)
InitFaceSite(f) == PointSite(CASE f = 1 -> 7 [] f = 2 -> 5 [] f = 3 -> 6)

initialize ==
    [vert  |-> [v \in 1 .. 10 |->
                  LET vp  == VoronoiVertex(InitVertexTable[v][1], InitVertexTable[v][2],
                                           v - 1, 0)
                      pos == InitPosTable[v]
                      ref == IF InitRefTable[v] = NoV THEN NoPos
                             ELSE InitPosTable[InitRefTable[v]]
                  IN  [vp EXCEPT !.pos = pos, !.ref = ref,
                                 !.r = IF ref = NoPos THEN 0 ELSE Dist(pos, ref)]],
     edge  |-> [e \in 1 .. 15 |->
                  [src |-> InitEdgeTable[e][1], trg |-> InitEdgeTable[e][2],
                   twin |-> InitEdgeTable[e][4], next |-> InitEdgeNext(e),
                   face |-> InitEdgeFace(e), type |-> InitEdgeTable[e][3], k |-> 1]],
     face  |-> [f \in 1 .. 3 |->
                  [edge |-> 5 * (f - 1) + 1,
                   site |-> InitFaceSite(f),
                   status |-> "NONINCIDENT"]],
     nv    |-> 10,
     ne    |-> 15,
     nf    |-> 3,
     \* reset_vertex_count()
     count |-> 0]

\* an indeterminate handle: segment_start, segment_end, zero_point_face,
\* null_face1 and null_face2 are not in the constructor's initialiser list
Junk == -1

NoRet == [op |-> "none", value |-> 0, completed |-> FALSE, step |-> 0, new_vert |-> NoV,
          nsplit |-> 0]

NoCall == [op |-> "none", current_step |-> 1, new_vert |-> NoV, newface |-> NoF,
           newface2 |-> NoF, i |-> 0,
           start |-> NoV, end |-> NoV, seg_start |-> NoV, seg_end |-> NoV,
           start_null_face |-> NoF, end_null_face |-> NoF,
           pos_sep_start |-> NoV, neg_sep_start |-> NoV,
           pos_sep_end |-> NoV, neg_sep_end |-> NoV,
           start_null_edge |-> NoE, end_null_edge |-> NoE,
           start_face |-> NoF, end_face |-> NoF, neg_target |-> NoTarget,
           nsplit |-> 0, ops |-> << >>]

Init ==
    /\ g = initialize
    /\ num_psites = 3
    /\ num_lsites = 0
    /\ vertex_map = << >>
    /\ vertexQueue = {}
    /\ modified_vertices = {}
    /\ incident_faces = << >>
    /\ v0 = << >>
    /\ \E u \in {NoV, Junk} :
         /\ segment_start = u
         /\ segment_end = u
         /\ zero_point_face = u
         /\ null_face1 = u
         /\ null_face2 = u
    /\ hval = << >>
    /\ split_calls = << >>
    /\ pc = "idle"
    /\ call = NoCall
    /\ ret = NoRet
    /\ hist = [issued |-> << >>, pcalls |-> 0, lcalls |-> 0, early |-> FALSE,
               lines |-> {}, calls |-> 0,
               face_edge |-> [f \in DOMAIN g.face |-> g.face[f].edge]]

-----------------------------------------------------------------------------
(* The engine object as the variables hold it, and back *)

Cur ==
    [g |-> g, num_psites |-> num_psites, num_lsites |-> num_lsites,
     vertex_map |-> vertex_map, vertexQueue |-> vertexQueue,
     modified_vertices |-> modified_vertices, incident_faces |-> incident_faces,
     v0 |-> v0, segment_start |-> segment_start, segment_end |-> segment_end,
     zero_point_face |-> zero_point_face, null_face1 |-> null_face1,
     null_face2 |-> null_face2, hval |-> hval,
     split_calls |-> split_calls, ok |-> TRUE]

Store(D) ==
    /\ g' = D.g
    /\ num_psites' = D.num_psites
    /\ num_lsites' = D.num_lsites
    /\ vertex_map' = D.vertex_map
    /\ vertexQueue' = D.vertexQueue
    /\ modified_vertices' = D.modified_vertices
    /\ incident_faces' = D.incident_faces
    /\ v0' = D.v0
    /\ segment_start' = D.segment_start
    /\ segment_end' = D.segment_end
    /\ zero_point_face' = D.zero_point_face
    /\ null_face1' = D.null_face1
    /\ null_face2' = D.null_face2
    /\ hval' = D.hval
    /\ split_calls' = D.split_calls

\* an assert failed: the program is gone
Abort ==
    /\ pc' = "crashed"
    /\ UNCHANGED <<g, num_psites, num_lsites, vertex_map, vertexQueue,
                   modified_vertices, incident_faces, v0, segment_start, segment_end,
                   zero_point_face, null_face1, null_face2, hval, split_calls,
                   call, ret, hist>>

\* the assert on an argument of a call failed: the program ends in the state
\* D that the entry of the call had reached
Reject(D) ==
    /\ Store(D)
    /\ pc' = "rejected"
    /\ UNCHANGED <<call, ret, hist>>

\* the running call goes on at position p
Goto(D, p, c) ==
    IF D.ok THEN Store(D) /\ pc' = p /\ call' = c /\ ret' = NoRet /\ UNCHANGED hist
    ELSE Abort

\* the running call c, made with the given step argument, returns value;
\* completed tells a return at the end of the function from a step-mode
\* early return; nsplit is the number of SPLIT vertices the call found to
\* remove at its end
Return(D, c, value, completed, step) ==
    IF D.ok
    THEN /\ Store([D EXCEPT !.hval = << >>, !.split_calls = << >>])
         /\ pc' = "idle"
         /\ call' = NoCall
         /\ ret' = [op |-> c.op, value |-> value, completed |-> completed,
                     step |-> step, new_vert |-> c.new_vert, nsplit |-> c.nsplit]
         /\ hist' = [hist EXCEPT
                       !.issued = IF completed /\ c.op = "point"
                                  THEN Append(@, <<value, c.new_vert>>) ELSE @,
                       !.pcalls = IF c.op = "point" THEN @ + 1 ELSE @,
                       !.lcalls = IF c.op = "line" THEN @ + 1 ELSE @,
                       !.lines = IF c.op = "line" THEN @ \cup {{c.start, c.end}} ELSE @,
                       !.early = @ \/ ~completed,
                       !.calls = @ + 1,
                       !.face_edge = [f \in DOMAIN D.g.face |-> D.g.face[f].edge]]
    ELSE Abort

\* the step-mode checkpoint: if (step==current_step) return -1 (false for a
\* line site); current_step++.  The step argument is read at the checkpoints
\* only, so its value is drawn where it is first decided: a call that returns
\* at checkpoint n was made with step = n, a call that passes it was made
\* with another value.
Checkpoint(D, p, c) ==
    IF ~D.ok THEN Abort
    ELSE \/ Return(D, c, IF c.op = "point" THEN -1 ELSE FALSE, FALSE, c.current_step)
         \/ Goto(D, p, [c EXCEPT !.current_step = @ + 1])

\* the step values that pass the checkpoints were there only four in
\* insert_point_site
PointStepsPassingFour == {0, 5}

\* the step values that pass every checkpoint of insert_point_site and of
\* insert_line_site (0 stands for the default argument)
PointStepsPassing == {0, 6}
LineStepsPassing == {0, 12}

-----------------------------------------------------------------------------
(* mark_vertex: the outcomes, one for every result the predicates may return *)

\* the outcomes of one iteration of the loop of mark_adjacent_faces
MarkFaceOutcomes(D, adj_face, s) ==
    IF ~D.ok THEN {D}
    ELSE IF ~LiveF(D, adj_face) THEN {Crash(D)}
    ELSE IF D.g.face[adj_face].status = "INCIDENT" THEN {D}
    ELSE IF D.g.face[adj_face].site = NoSite THEN {Crash(D)}
    ELSE IF ~wants_split(D, adj_face, s) \/ ~FaceRingOK(D, adj_face)
    THEN {mark_adjacent_face(D, adj_face, s, << >>, 0)}
    ELSE LET pt == SplitLine(D, adj_face, s)
         IN  UNION { { mark_adjacent_face(D, adj_face, s, side, n) :
                         n \in BracketDraws(D, find_split_edges(D, adj_face, side), pt) } :
                     side \in SideDraws(D, adj_face, pt) }

RECURSIVE MarkAdjacentLoop(_, _, _, _)
MarkAdjacentLoop(DS, faces, i, s) ==
    IF i > Len(faces) THEN DS
    ELSE MarkAdjacentLoop(UNION { MarkFaceOutcomes(D, faces[i], s) : D \in DS },
                          faces, i + 1, s)

mark_adjacent_faces(D, v, s) ==
    IF ~mark_adjacent_faces_ok(D, v) THEN {Crash(D)}
    ELSE MarkAdjacentLoop({D}, g_adjacent_faces(D.g, v), 1, s)

mark_vertex(D, v, site) ==
    LET D1 == [mark_IN(D, v) EXCEPT !.split_calls = << >>]
        DS == IF isPoint(site) THEN {mark_adjacent_faces_p(D1, v)}
              ELSE mark_adjacent_faces(D1, v, site)
    IN  UNION { IF ~D2.ok THEN {D2}
                ELSE { push_adjacent(Remember(D2, d), v) :
                         d \in OracleDraws(D2, Pushed(D2, v) \ DOMAIN D2.hval, site) } :
                D2 \in DS }

-----------------------------------------------------------------------------
(* insert_point_site *)

\* the points the user may insert, in far_radius = FarRadius units: three on
\* a line and one off it, all inside the far_radius circle
UserPoints == { <<-3, 0>>, <<5, 0>>, <<9, 0>>, <<1, 4>> }

\* the face grid_find_closest_face returns: the face of the point site closest to p
GridFaces(D, p) ==
    LET PF == { f \in DOMAIN D.g.face : isPoint(D.g.face[f].site) }
        d(f) == Dist2(Position(D, D.g.face[f].site.a), p)
    IN  { f \in PF : \A h \in PF : d(f) <= d(h) }

\* the value vertex_map.find(idx) returns, NoV for vertex_map.end()
MapFind(m, idx) == IF idx \in DOMAIN m THEN m[idx] ELSE NoV

\* std::map::insert keeps an existing entry
MapInsert(m, idx, v) == IF idx \in DOMAIN m THEN m ELSE m @@ (idx :> v)

\* point_site_entry without num_psites++
point_site_entry_uncounted(D, p) ==
    LET new_vert == NewV(D.g)
        G1       == g_add_vertex(D.g, "OUT", "POINTSITE", 0)
        G2       == [G1 EXCEPT !.vert[new_vert].pos = p]
    IN  [D EXCEPT !.segment_start = NoV,
                  !.segment_end = NoV,
                  !.zero_point_face = NoF,
                  !.g = G2,
                  !.vertex_map = MapInsert(@, G2.vert[new_vert].index, new_vert),
                  !.hval = << >>]

\* point_site_entry without vertex_map.insert
point_site_entry_unmapped(D, p) ==
    LET new_vert == NewV(D.g)
        G1       == g_add_vertex(D.g, "OUT", "POINTSITE", 0)
        G2       == [G1 EXCEPT !.vert[new_vert].pos = p]
    IN  [D EXCEPT !.segment_start = NoV,
                  !.segment_end = NoV,
                  !.zero_point_face = NoF,
                  !.num_psites = @ + 1,
                  !.g = G2,
                  !.hval = << >>]

\* lines 161-171: reset of the segment globals, the counter, the POINTSITE vertex
point_site_entry(D, p) ==
    LET new_vert == NewV(D.g)
        G1       == g_add_vertex(D.g, "OUT", "POINTSITE", 0)
        G2       == [G1 EXCEPT !.vert[new_vert].pos = p]
    IN  [D EXCEPT !.segment_start = NoV,
                  !.segment_end = NoV,
                  !.zero_point_face = NoF,
                  !.num_psites = @ + 1,
                  !.g = G2,
                  !.vertex_map = MapInsert(@, G2.vert[new_vert].index, new_vert),
                  !.hval = << >>]

\* find_seed_vertex on face f and mark_vertex of the seed, for the given site
seed_and_mark(D, f, site) ==
    IF ~FaceRingOK(D, f) THEN {Crash(D)}
    ELSE UNION {
           LET D1   == Remember(D, d1)
               seed == find_seed_vertex(D1, f, site)
           IN  IF ~(seed.minPred < 0) THEN {Crash(D)}
               ELSE mark_vertex(D1, seed.minimalVertex, site) :
           d1 \in OracleDraws(D, SeedEvaluated(D, f), site) }

\* points the user may pass that are not inside the far_radius circle
OutsidePoints == { <<10, 0>>, <<-8, 8>> }

\* lines 161-165: the state at the assert on p.norm()
point_site_counted(D) ==
    [D EXCEPT !.segment_start = NoV,
              !.segment_end = NoV,
              !.zero_point_face = NoF,
              !.num_psites = @ + 1]

\* entry, find_seed_vertex on the face the grid returns, mark_vertex, checkpoint 1
insert_point_site(p, f) ==
    /\ pc = "idle"
    \* the caller inserts no point twice
    /\ \A v \in DOMAIN g.vert : g.vert[v].type = "POINTSITE" => g.vert[v].pos # Scaled(p)
    /\ IF ~(Dist2(p, <<0, 0>>) < FarRadius * FarRadius)
       THEN Reject(point_site_counted(Cur))
       ELSE LET D0 == point_site_entry(Cur, Scaled(p))
                c  == [NoCall EXCEPT !.op = "point", !.new_vert = NewV(g)]
            IN  /\ f \in GridFaces(D0, Scaled(p))
                /\ \E D1 \in seed_and_mark(D0, f, PointSite(c.new_vert)) :
                     Checkpoint(D1, "augment", c)

\* the entry of the queue that top() returns: of largest magnitude, the one
\* with the lowest handle among equals
QueueTop(q) ==
    { t \in q : \A u \in q : (Abs(u[2]) < Abs(t[2]))
                             \/ (Abs(u[2]) = Abs(t[2]) /\ t[1] <= u[1]) }

\* the site whose insertion is running
CallSite(c) == IF c.op = "point" THEN PointSite(c.new_vert) ELSE g.face[c.newface].site

\* augment_vertex_set that does not ask predicate_c5
augment_vertex_set_without_c5 ==
    /\ pc = "augment"
    /\ vertexQueue # {}
    /\ \E t \in QueueTop(vertexQueue) :
         \E D0 \in {[Cur EXCEPT !.vertexQueue = @ \ {t}]} :
           IF ~LiveV(D0, t[1]) THEN Abort
           ELSE IF Status(D0, t[1]) # "UNDECIDED" THEN Abort
           ELSE IF t[2] < 0 /\ ~predicate_c4(D0, t[1]) /\ in_region(D0, CallSite(call), t[1])
           THEN \E D1 \in mark_vertex(D0, t[1], CallSite(call)) : Goto(D1, "augment", call)
           ELSE Goto([D0 EXCEPT !.g.vert[t[1]].status = "OUT",
                                !.modified_vertices = @ \cup {t[1]}],
                     "augment", call)

\* one iteration of the loop of augment_vertex_set
augment_vertex_set ==
    /\ pc = "augment"
    /\ vertexQueue # {}
    /\ \E t \in QueueTop(vertexQueue) :
         LET v    == t[1]
             h    == t[2]
             site == CallSite(call)
             D0   == [Cur EXCEPT !.vertexQueue = @ \ {t}]
             OUT  == [D0 EXCEPT !.g.vert[v].status = "OUT",
                                !.modified_vertices = @ \cup {v}]
         IN  IF ~LiveV(D0, v) THEN Abort
             ELSE IF Status(D0, v) # "UNDECIDED" THEN Abort
             ELSE IF h < 0
             THEN IF predicate_c4(D0, v) THEN Goto(OUT, "augment", call)
                  ELSE IF ~predicate_c5_defined(D0, v) THEN Abort
                  ELSE IF ~predicate_c5(D0, v) \/ ~in_region(D0, site, v)
                  THEN Goto(OUT, "augment", call)
                  ELSE \E D1 \in mark_vertex(D0, v, site) : Goto(D1, "augment", call)
             ELSE Goto(OUT, "augment", call)

\* the queue is empty: the checkpoint after augment_vertex_set (nothing
\* evaluates in_circle after it, so the values drawn are forgotten here)
augment_done ==
    /\ pc = "augment"
    /\ vertexQueue = {}
    /\ Checkpoint([Cur EXCEPT !.hval = << >>, !.split_calls = << >>], "add_vertices",
                  call)

\* add_vertices and the checkpoint after it
add_vertices_step ==
    /\ pc = "add_vertices"
    /\ \E D1 \in add_vertices(Cur, CallSite(call)) :
         Checkpoint(D1, IF call.op = "point" THEN "add_face" ELSE "l_sep1", call)

\* add_face for the new point site
add_face_step ==
    /\ pc = "add_face"
    /\ LET newface == NewF(g)
           D1 == add_face(Cur, PointSite(call.new_vert))
           D2 == [D1 EXCEPT !.g.vert[call.new_vert].face = newface]
       IN  Goto(D2, "add_edges", [call EXCEPT !.newface = newface, !.i = 1])

\* one iteration of the loop over incident_faces: add_edges(newface, f),
\* for a line site only on the faces that are still INCIDENT
add_edges_step ==
    /\ pc = "add_edges"
    /\ call.i <= Len(incident_faces)
    /\ LET f == incident_faces[call.i]
           c == [call EXCEPT !.i = @ + 1]
           c1 == [c EXCEPT !.ops = Append(@, "add_edges")]
       IN  IF ~LiveF(Cur, f) THEN Abort
           ELSE IF call.op = "line" /\ g.face[f].status # "INCIDENT"
           THEN Goto(Cur, "add_edges", c)
           ELSE IF ~add_edges_ok(Cur, f) THEN Abort
           ELSE \E D1 \in add_edges(Cur, call.newface, f, call.newface2) :
                  Goto(D1, "add_edges", c1)

\* all edges added: the checkpoint after the loop
add_edges_done ==
    /\ pc = "add_edges"
    /\ call.i > Len(incident_faces)
    /\ Checkpoint(Cur, IF call.op = "point" THEN "repair" ELSE "l_repair", call)

\* the calls between the loop over incident_faces and the next checkpoint,
\* in the order in which the code makes them: lines 186-188 of
\* insert_point_site, lines 348-357 of insert_line_site
PointTail == <<"repair_face(newface)", "remove_vertex_set">>

LineTailRepairFirst == <<"repair_face(pos_face)", "repair_face(neg_face)", "remove_vertex_set">>

LineTail == <<"remove_vertex_set", "repair_face(pos_face)", "repair_face(neg_face)">>

\* the calls of a tail made one after the other, from the i-th on
RECURSIVE RunTail(_, _, _, _)
RunTail(D, c, tail, i) ==
    IF i > Len(tail) THEN D
    ELSE RunTail(IF tail[i] = "remove_vertex_set" THEN remove_vertex_set(D)
                 ELSE IF tail[i] = "repair_face(neg_face)" THEN repair_face(D, c.newface2)
                 ELSE repair_face(D, c.newface),
                 c, tail, i + 1)

\* repair_face, remove_vertex_set, checkpoint 5; call.ops keeps the names of
\* the calls made
repair_remove_step ==
    /\ pc = "repair"
    /\ Checkpoint(RunTail(Cur, call, PointTail, 1), "reset",
                  [call EXCEPT !.ops = @ \o PointTail])

\* reset_status, return of the index
reset_return_step ==
    /\ pc = "reset"
    /\ LET D1 == reset_status(Cur)
       IN  IF D1.ok
           THEN \E step \in PointStepsPassing :
                  Return(D1, call, D1.g.vert[call.new_vert].index, TRUE, step)
           ELSE Abort

-----------------------------------------------------------------------------
(* insert_line_site *)

\* find_endpoints: [ok, start, end]
find_endpoints(D, idx1, idx2) ==
    [ok    |-> MapFind(D.vertex_map, idx1) # NoV /\ MapFind(D.vertex_map, idx2) # NoV,
     start |-> MapFind(D.vertex_map, idx1),
     end   |-> MapFind(D.vertex_map, idx2)]

\* the segment from a to b is one the caller may insert: it joins two
\* different points, is not in the diagram yet and passes through no other
\* point site
ValidSegment(D, a, b) ==
    /\ a # b
    /\ {a, b} \notin hist.lines
    /\ \A v \in DOMAIN D.g.vert :
         (Type(D, v) = "POINTSITE" /\ v \notin {a, b})
         => LET A == Position(D, a)
                B == Position(D, b)
                P == Position(D, v)
            IN  ~( (B[1] - A[1]) * (P[2] - A[2]) = (B[2] - A[2]) * (P[1] - A[1])
                   /\ InRegionPos(D, LineSite(a, b, 1), v) )

\* the indices a caller may pass to insert_line_site: those of the point
\* sites, the three generators included
SiteIndices(G) == { G.vert[v].index : v \in { x \in DOMAIN G.vert : G.vert[x].type = "POINTSITE" } }

\* the locals of insert_line_site after the two find_null_face calls
line_call(start, end, n1, n2, G) ==
    [NoCall EXCEPT !.op = "line", !.start = start, !.end = end,
                   !.seg_start = n1.seg, !.seg_end = n2.seg,
                   !.start_null_face = n1.null_face,
                   !.end_null_face = n2.null_face,
                   !.pos_sep_start = n1.pos_sep,
                   !.neg_sep_start = n1.neg_sep,
                   !.pos_sep_end = n2.pos_sep,
                   !.neg_sep_end = n2.neg_sep,
                   !.start_null_edge = G.face[n1.null_face].edge,
                   !.end_null_edge = G.face[n2.null_face].edge]

\* entry, find_endpoints, the two find_null_face calls, checkpoint 1
insert_line_site(idx1, idx2) ==
    /\ pc = "idle"
    /\ \E D0 \in {[Cur EXCEPT !.zero_point_face = NoF, !.num_lsites = @ + 1,
                              !.hval = << >>]} :
       \E ep \in {find_endpoints(D0, idx1, idx2)} :
         IF ~ep.ok THEN Reject(D0)
         ELSE
         /\ ValidSegment(D0, ep.start, ep.end)
         /\ \E n1 \in {find_null_face([D0 EXCEPT !.g.vert[ep.start].status = "OUT",
                                                  !.g.vert[ep.end].status = "OUT"],
                                        ep.start, ep.end,
                                        left_is_right(ep.start, ep.end, ep.start, ep.end))} :
              IF ~n1.D.ok THEN Abort
              ELSE
              \E n2 \in {find_null_face(n1.D, ep.end, ep.start,
                                         left_is_right(ep.end, ep.start, ep.start, ep.end))} :
                IF ~n2.D.ok THEN Abort
                ELSE Checkpoint([n2.D EXCEPT !.null_face1 = n1.null_face,
                                             !.null_face2 = n2.null_face,
                                             !.segment_start = n1.seg,
                                             !.segment_end = n2.seg],
                                "l_edges",
                                line_call(ep.start, ep.end, n1, n2, n2.D.g))

\* add_linesite_edges, the two find_pointsite_face calls, checkpoint 2
line_edges_step ==
    /\ pc = "l_edges"
    /\ LET r == add_linesite_edges(Cur, call.seg_start, call.seg_end, call.start,
                                   call.end,
                                   left_is_right(call.start, call.end, call.start, call.end))
           start_face == find_pointsite_face(r.D, call.start_null_edge)
           end_face   == find_pointsite_face(r.D, call.end_null_edge)
       IN  IF start_face = NoF \/ end_face = NoF THEN Abort
           ELSE Checkpoint(r.D, "l_seed",
                           [call EXCEPT !.newface = r.pos_face, !.newface2 = r.neg_face,
                                        !.start_face = start_face,
                                        !.end_face = end_face])

\* line_seed_step without the assignment of the zero-face edge
line_seed_step_unset ==
    /\ pc = "l_seed"
    /\ \E D1 \in seed_and_mark(Cur, call.start_face, CallSite(call)) :
         IF ~D1.ok THEN Abort
         ELSE Checkpoint(D1, "augment", call)

\* find_seed_vertex on start_face, mark_vertex, the zero-face edge, checkpoint 3
line_seed_step ==
    /\ pc = "l_seed"
    /\ \E D1 \in seed_and_mark(Cur, call.start_face, CallSite(call)) :
         IF ~D1.ok THEN Abort
         ELSE IF D1.zero_point_face = NoF THEN Checkpoint(D1, "augment", call)
         ELSE IF ~LiveF(D1, D1.zero_point_face) THEN Abort
         ELSE Checkpoint([D1 EXCEPT !.g.face[D1.zero_point_face].edge =
                                       call.start_null_edge],
                         "augment", call)

\* both separator targets of the start face, the positive separator, checkpoint 6
line_sep1_step ==
    /\ pc = "l_sep1"
    /\ LET pos_start_target == find_separator_target(Cur, call.start_face,
                                                     call.pos_sep_start)
           neg_start_target == find_separator_target(Cur, call.start_face,
                                                     call.neg_sep_start)
       IN  IF ~pos_start_target.ok \/ ~neg_start_target.ok THEN Abort
           ELSE \E D1 \in add_separator(Cur, call.start_face, call.start_null_face,
                                        pos_start_target, call.pos_sep_start,
                                        call.newface, call.newface2) :
                  Checkpoint(D1, "l_sep2", [call EXCEPT !.neg_target = neg_start_target])

\* the negative separator of the start face, checkpoint 7
line_sep2_step ==
    /\ pc = "l_sep2"
    /\ \E D1 \in add_separator(Cur, call.start_face, call.start_null_face,
                                call.neg_target, call.neg_sep_start,
                                call.newface, call.newface2) :
           IF ~D1.ok THEN Abort
           ELSE Checkpoint([D1 EXCEPT !.g.face[call.start_face].status = "NONINCIDENT"],
                           "l_sep3", [call EXCEPT !.neg_target = NoTarget])

\* both separator targets of the end face, the positive separator, checkpoint 8
line_sep3_step ==
    /\ pc = "l_sep3"
    /\ LET pos_end_target == find_separator_target(Cur, call.end_face, call.pos_sep_end)
           neg_end_target == find_separator_target(Cur, call.end_face, call.neg_sep_end)
       IN  IF ~pos_end_target.ok \/ ~neg_end_target.ok THEN Abort
           ELSE \E D1 \in add_separator(Cur, call.end_face, call.end_null_face,
                                        pos_end_target, call.pos_sep_end,
                                        call.newface, call.newface2) :
                  Checkpoint(D1, "l_sep4", [call EXCEPT !.neg_target = neg_end_target])

\* the negative separator of the end face, checkpoint 9
line_sep4_step ==
    /\ pc = "l_sep4"
    /\ \E D1 \in add_separator(Cur, call.end_face, call.end_null_face,
                                call.neg_target, call.neg_sep_end,
                                call.newface, call.newface2) :
           IF ~D1.ok THEN Abort
           ELSE Checkpoint([D1 EXCEPT !.g.face[call.end_face].status = "NONINCIDENT"],
                           "add_edges", [call EXCEPT !.neg_target = NoTarget, !.i = 1])

\* remove_vertex_set, repair_face of the two new faces, checkpoint 11
line_repair_step ==
    /\ pc = "l_repair"
    /\ Checkpoint(RunTail(Cur, call, LineTail, 1), "l_finish",
                  [call EXCEPT !.ops = @ \o LineTail])

\* num_split_vertices: the number of vertices of kind SPLIT
num_split_vertices(G) ==
    Cardinality({ v \in DOMAIN G.vert : G.vert[v].type = "SPLIT" })

\* remove_split_vertex on every incident face, reset_status, return true
line_finish_step ==
    /\ pc = "l_finish"
    /\ LET D1 == reset_status(RemoveSplitLoop(Cur, 1))
       IN  IF D1.ok
           THEN \E step \in LineStepsPassing :
                  Return(D1, [call EXCEPT !.nsplit = num_split_vertices(g)], TRUE, TRUE, step)
           ELSE Abort

-----------------------------------------------------------------------------
(* check *)

\* VoronoiDiagramChecker::is_valid: the validation of the half-edge graph.
\* It reads the graph: the ring of every face closes, every half-edge that
\* has a twin is the twin of its twin, and every NORMAL vertex has three
\* outgoing half-edges.
is_valid(D) ==
    /\ \A f \in DOMAIN D.g.face : FaceRingOK(D, f)
    /\ \A e \in DOMAIN D.g.edge :
         D.g.edge[e].twin # NoE
         => /\ D.g.edge[e].twin \in DOMAIN D.g.edge
            /\ D.g.edge[D.g.edge[e].twin].twin = e
    /\ \A v \in DOMAIN D.g.vert :
         D.g.vert[v].type = "NORMAL"
         => Cardinality({ e \in DOMAIN D.g.edge : D.g.edge[e].src = v }) = 3

\* check that also clears the transient containers
check_clearing ==
    /\ pc = "idle"
    /\ pc' = "idle"
    /\ call' = NoCall
    /\ ret' = [NoRet EXCEPT !.op = "check", !.value = is_valid(Cur)]
    /\ modified_vertices' = {}
    /\ incident_faces' = << >>
    /\ UNCHANGED <<g, num_psites, num_lsites, vertex_map, vertexQueue, v0,
                   segment_start, segment_end, zero_point_face, null_face1,
                   null_face2, hval,
                   split_calls, hist>>

\* check(): returns vd_checker->is_valid()
check ==
    /\ pc = "idle"
    /\ pc' = "idle"
    /\ call' = NoCall
    /\ ret' = [NoRet EXCEPT !.op = "check", !.value = is_valid(Cur)]
    /\ UNCHANGED <<g, num_psites, num_lsites, vertex_map, vertexQueue,
                   modified_vertices, incident_faces, v0, segment_start, segment_end,
                   zero_point_face, null_face1, null_face2, hval,
                   split_calls, hist>>

-----------------------------------------------------------------------------

(* The program: any call the bounds allow, made with any step argument; no *)
(* call is made after a step-mode early return.                            *)

Next ==
    \/ /\ num_psites - 3 < MaxPoints
       /\ ~hist.early
       /\ \E p \in UserPoints \cup OutsidePoints, f \in DOMAIN g.face :
            insert_point_site(p, f)
    \/ /\ num_lsites < MaxLines
       /\ ~hist.early
       /\ \E idx1, idx2 \in SiteIndices(g) : insert_line_site(idx1, idx2)
    \/ augment_vertex_set
    \/ augment_done
    \/ add_vertices_step
    \/ add_face_step
    \/ add_edges_step
    \/ add_edges_done
    \/ repair_remove_step
    \/ reset_return_step
    \/ line_edges_step
    \/ line_seed_step
    \/ line_sep1_step
    \/ line_sep2_step
    \/ line_sep3_step
    \/ line_sep4_step
    \/ line_repair_step
    \/ line_finish_step

Spec == Init /\ [][Next]_vars

(* A chain of segments: the points of ChainPoints are inserted in their     *)
(* order, then segments between them, every call with the default step      *)
(* argument (no early return).  Two segments that meet at the middle point  *)
(* make the second find_null_face work on an existing null face.            *)

ChainPoints == << <<-3, 0>>, <<5, 0>>, <<9, 0>> >>

NoEarlyReturn == ~hist'.early

NextChain ==
    \/ /\ num_psites - 3 < Len(ChainPoints)
       /\ \E f \in DOMAIN g.face : insert_point_site(ChainPoints[num_psites - 2], f)
       /\ NoEarlyReturn
    \/ /\ num_psites - 3 = Len(ChainPoints)
       /\ num_lsites < Len(ChainPoints) - 1
       /\ insert_line_site(hist.issued[num_lsites + 1][1], hist.issued[num_lsites + 2][1])
       /\ NoEarlyReturn
    \/ augment_vertex_set /\ NoEarlyReturn
    \/ augment_done /\ NoEarlyReturn
    \/ add_vertices_step /\ NoEarlyReturn
    \/ add_face_step /\ NoEarlyReturn
    \/ add_edges_step /\ NoEarlyReturn
    \/ add_edges_done /\ NoEarlyReturn
    \/ repair_remove_step /\ NoEarlyReturn
    \/ reset_return_step /\ NoEarlyReturn
    \/ line_edges_step /\ NoEarlyReturn
    \/ line_seed_step /\ NoEarlyReturn
    \/ line_sep1_step /\ NoEarlyReturn
    \/ line_sep2_step /\ NoEarlyReturn
    \/ line_sep3_step /\ NoEarlyReturn
    \/ line_sep4_step /\ NoEarlyReturn
    \/ line_repair_step /\ NoEarlyReturn
    \/ line_finish_step /\ NoEarlyReturn

SpecChain == Init /\ [][NextChain]_vars

(* A point after a segment: two points, the segment between them, then a     *)
(* third point next to the segment, every call with the default step         *)
(* argument.                                                                  *)

LatePoints == << <<-3, 0>>, <<5, 0>>, <<1, 4>> >>

NextLate ==
    \/ /\ num_psites - 3 < Len(LatePoints)
       /\ num_lsites = (IF num_psites - 3 < 2 THEN 0 ELSE 1)
       /\ \E f \in DOMAIN g.face : insert_point_site(LatePoints[num_psites - 2], f)
       /\ NoEarlyReturn
    \/ /\ num_psites - 3 = 2
       /\ num_lsites = 0
       /\ insert_line_site(hist.issued[1][1], hist.issued[2][1])
       /\ NoEarlyReturn
    \/ augment_vertex_set /\ NoEarlyReturn
    \/ augment_done /\ NoEarlyReturn
    \/ add_vertices_step /\ NoEarlyReturn
    \/ add_face_step /\ NoEarlyReturn
    \/ add_edges_step /\ NoEarlyReturn
    \/ add_edges_done /\ NoEarlyReturn
    \/ repair_remove_step /\ NoEarlyReturn
    \/ reset_return_step /\ NoEarlyReturn
    \/ line_edges_step /\ NoEarlyReturn
    \/ line_seed_step /\ NoEarlyReturn
    \/ line_sep1_step /\ NoEarlyReturn
    \/ line_sep2_step /\ NoEarlyReturn
    \/ line_sep3_step /\ NoEarlyReturn
    \/ line_sep4_step /\ NoEarlyReturn
    \/ line_repair_step /\ NoEarlyReturn
    \/ line_finish_step /\ NoEarlyReturn

SpecLate == Init /\ [][NextLate]_vars

(* A bend: the segments A-B and B-C with C off the line through A and B, so *)
(* that the second find_null_face puts its ENDPOINT next to the ENDPOINT of *)
(* the first segment in the null face of B.                                 *)

BendPoints == << <<-3, 0>>, <<5, 0>>, <<1, 4>> >>

NextBend ==
    \/ /\ num_psites - 3 < Len(BendPoints)
       /\ \E f \in DOMAIN g.face : insert_point_site(BendPoints[num_psites - 2], f)
       /\ NoEarlyReturn
    \/ /\ num_psites - 3 = Len(BendPoints)
       /\ num_lsites < Len(BendPoints) - 1
       /\ insert_line_site(hist.issued[num_lsites + 1][1], hist.issued[num_lsites + 2][1])
       /\ NoEarlyReturn
    \/ augment_vertex_set /\ NoEarlyReturn
    \/ augment_done /\ NoEarlyReturn
    \/ add_vertices_step /\ NoEarlyReturn
    \/ add_face_step /\ NoEarlyReturn
    \/ add_edges_step /\ NoEarlyReturn
    \/ add_edges_done /\ NoEarlyReturn
    \/ repair_remove_step /\ NoEarlyReturn
    \/ reset_return_step /\ NoEarlyReturn
    \/ line_edges_step /\ NoEarlyReturn
    \/ line_seed_step /\ NoEarlyReturn
    \/ line_sep1_step /\ NoEarlyReturn
    \/ line_sep2_step /\ NoEarlyReturn
    \/ line_sep3_step /\ NoEarlyReturn
    \/ line_sep4_step /\ NoEarlyReturn
    \/ line_repair_step /\ NoEarlyReturn
    \/ line_finish_step /\ NoEarlyReturn

SpecBend == Init /\ [][NextBend]_vars
-----------------------------------------------------------------------------
(* The program with check(): any call the bounds allow, and check() between *)
(* the calls, also after a step-mode early return.                          *)

NextCheck ==
    \/ /\ num_psites - 3 < MaxPoints
       /\ ~hist.early
       /\ \E p \in UserPoints \cup OutsidePoints, f \in DOMAIN g.face :
            insert_point_site(p, f)
    \/ /\ num_lsites < MaxLines
       /\ ~hist.early
       /\ \E idx1, idx2 \in SiteIndices(g) : insert_line_site(idx1, idx2)
    \/ check
    \/ augment_vertex_set
    \/ augment_done
    \/ add_vertices_step
    \/ add_face_step
    \/ add_edges_step
    \/ add_edges_done
    \/ repair_remove_step
    \/ reset_return_step
    \/ line_edges_step
    \/ line_seed_step
    \/ line_sep1_step
    \/ line_sep2_step
    \/ line_sep3_step
    \/ line_sep4_step
    \/ line_repair_step
    \/ line_finish_step

SpecCheck == Init /\ [][NextCheck]_vars
-----------------------------------------------------------------------------
(* augment_vertex_set and predicate_c5 on drawn marks.  The first point is  *)
(* being inserted into the initial frame; the status of v00 and of the      *)
(* three degree-2 vertices, the kind of the degree-2 vertices, the status   *)
(* of the three faces and the one queue entry are drawn.  The loop of       *)
(* augment_vertex_set then runs, and predicate_c5 is called for the         *)
(* undecided vertices.                                                      *)

MarkedVertices == {1, 8, 9, 10}
MarkStatus == {"UNDECIDED", "IN"}
MarkKinds == {"NORMAL", "APEX", "SPLIT", "ENDPOINT"}
MarkFaceStatus == {"INCIDENT", "NONINCIDENT"}
MarkPoint == <<1, 4>>

\* the engine at lines 161-171 of the first insert_point_site(MarkPoint)
MarkEntry ==
    point_site_entry(
        [g |-> initialize, num_psites |-> 3, num_lsites |-> 0, vertex_map |-> << >>,
         vertexQueue |-> {}, modified_vertices |-> {}, incident_faces |-> << >>,
         v0 |-> << >>, segment_start |-> NoV, segment_end |-> NoV,
         zero_point_face |-> NoF, null_face1 |-> NoF, null_face2 |-> NoF,
         hval |-> << >>, split_calls |-> << >>, ok |-> TRUE],
        Scaled(MarkPoint))

\* the graph with the marks: status st and kind kd of the vertices, status
\* fs of the faces, vertex q in the queue
MarkedFrame(st, kd, fs, q) ==
    [MarkEntry.g EXCEPT
       !.vert = [v \in DOMAIN @ |->
                   IF v \in MarkedVertices
                   THEN [@[v] EXCEPT !.status = st[v],
                                     !.type = IF v = 1 THEN "NORMAL" ELSE kd[v],
                                     !.in_queue = (v = q)]
                   ELSE @[v]],
       !.face = [f \in DOMAIN @ |-> [@[f] EXCEPT !.status = fs[f]]]]

InitMarks ==
    /\ \E st \in [MarkedVertices -> MarkStatus],
          kd \in [MarkedVertices \ {1} -> MarkKinds],
          fs \in [1 .. 3 -> MarkFaceStatus] :
         \E q \in { v \in MarkedVertices : st[v] = "UNDECIDED" }, h \in HVals :
           /\ g = MarkedFrame(st, kd, fs, q)
           /\ v0 = SortedSeq({ v \in MarkedVertices : st[v] = "IN" })
           /\ modified_vertices = { v \in MarkedVertices : st[v] = "IN" }
           /\ incident_faces = SortedSeq({ f \in 1 .. 3 : fs[f] = "INCIDENT" })
           /\ vertexQueue = {<<q, h>>}
           /\ hval = (q :> [h |-> h, r |-> TRUE])
    /\ split_calls = << >>
    /\ num_psites = MarkEntry.num_psites
    /\ num_lsites = 0
    /\ vertex_map = MarkEntry.vertex_map
    /\ segment_start = NoV
    /\ segment_end = NoV
    /\ zero_point_face = NoF
    /\ null_face1 = NoF
    /\ null_face2 = NoF
    /\ pc = "augment"
    /\ call = [NoCall EXCEPT !.op = "point", !.new_vert = NewV(initialize)]
    /\ ret = NoRet
    /\ hist = [issued |-> << >>, pcalls |-> 0, lcalls |-> 0, early |-> FALSE,
               lines |-> {}, calls |-> 0,
               face_edge |-> [f \in DOMAIN g.face |-> g.face[f].edge]]

\* a call of predicate_c5(v); ret.value is the pair of v and the value returned
call_predicate_c5(v) ==
    /\ pc = "augment"
    /\ g.vert[v].status = "UNDECIDED"
    /\ IF ~predicate_c5_defined(Cur, v) THEN Abort
       ELSE /\ ret' = [NoRet EXCEPT !.op = "predicate_c5",
                                    !.value = <<v, predicate_c5(Cur, v)>>]
            /\ UNCHANGED <<g, num_psites, num_lsites, vertex_map, vertexQueue,
                           modified_vertices, incident_faces, v0, segment_start,
                           segment_end, zero_point_face, null_face1, null_face2,
                           hval, split_calls, pc, call, hist>>

NextMarks ==
    \/ augment_vertex_set
    \/ \E v \in MarkedVertices : call_predicate_c5(v)

SpecMarks == InitMarks /\ [][NextMarks]_vars
-----------------------------------------------------------------------------

(* Calls after a step-mode early return: the points of ResumePoints are      *)
(* inserted in their order, each call with any step argument, the next call  *)
(* entered whatever the previous one returned.                               *)

ResumePoints == << <<1, -4>>, <<-3, 4>>, <<2, 1>>, <<1, 4>> >>

NextResume ==
    \/ /\ hist.calls < Len(ResumePoints)
       /\ \E f \in DOMAIN g.face : insert_point_site(ResumePoints[hist.calls + 1], f)
    \/ augment_vertex_set
    \/ augment_done
    \/ add_vertices_step
    \/ add_face_step
    \/ add_edges_step
    \/ add_edges_done
    \/ repair_remove_step
    \/ reset_return_step

SpecResume == Init /\ [][NextResume]_vars
-----------------------------------------------------------------------------

(* A short segment: two points close to each other and the segment from the *)
(* second to the first, every call with the default step argument.  The     *)
(* vertices of the start face lie within the rounding of in_circle and      *)
(* in_region of the segment.                                                *)

SeedPoints == << <<1, 4>>, <<0, 6>> >>

NextSeed ==
    \/ /\ num_psites - 3 < Len(SeedPoints)
       /\ \E f \in DOMAIN g.face : insert_point_site(SeedPoints[num_psites - 2], f)
       /\ NoEarlyReturn
    \/ /\ num_psites - 3 = Len(SeedPoints)
       /\ num_lsites = 0
       /\ insert_line_site(hist.issued[2][1], hist.issued[1][1])
       /\ NoEarlyReturn
    \/ augment_vertex_set /\ NoEarlyReturn
    \/ augment_done /\ NoEarlyReturn
    \/ add_vertices_step /\ NoEarlyReturn
    \/ add_face_step /\ NoEarlyReturn
    \/ add_edges_step /\ NoEarlyReturn
    \/ add_edges_done /\ NoEarlyReturn
    \/ repair_remove_step /\ NoEarlyReturn
    \/ reset_return_step /\ NoEarlyReturn
    \/ line_edges_step /\ NoEarlyReturn
    \/ line_seed_step /\ NoEarlyReturn
    \/ line_sep1_step /\ NoEarlyReturn
    \/ line_sep2_step /\ NoEarlyReturn
    \/ line_sep3_step /\ NoEarlyReturn
    \/ line_sep4_step /\ NoEarlyReturn
    \/ line_repair_step /\ NoEarlyReturn
    \/ line_finish_step /\ NoEarlyReturn

SpecSeed == Init /\ [][NextSeed]_vars
-----------------------------------------------------------------------------

(* The bend turned the other way: C lies on the other side of the line     *)
(* through A and B, so that the ENDPOINT of the second segment comes before *)
(* the ENDPOINT of the first on the ring of the null face of B.             *)

DownPoints == << <<-3, 0>>, <<5, 0>>, <<1, -4>> >>
NextDown ==
    \/ /\ num_psites - 3 < Len(DownPoints)
       /\ \E f \in DOMAIN g.face : insert_point_site(DownPoints[num_psites - 2], f)
       /\ NoEarlyReturn
    \/ /\ num_psites - 3 = Len(DownPoints)
       /\ num_lsites < Len(DownPoints) - 1
       /\ insert_line_site(hist.issued[num_lsites + 1][1], hist.issued[num_lsites + 2][1])
       /\ NoEarlyReturn
    \/ augment_vertex_set /\ NoEarlyReturn
    \/ augment_done /\ NoEarlyReturn
    \/ add_vertices_step /\ NoEarlyReturn
    \/ add_face_step /\ NoEarlyReturn
    \/ add_edges_step /\ NoEarlyReturn
    \/ add_edges_done /\ NoEarlyReturn
    \/ repair_remove_step /\ NoEarlyReturn
    \/ reset_return_step /\ NoEarlyReturn
    \/ line_edges_step /\ NoEarlyReturn
    \/ line_seed_step /\ NoEarlyReturn
    \/ line_sep1_step /\ NoEarlyReturn
    \/ line_sep2_step /\ NoEarlyReturn
    \/ line_sep3_step /\ NoEarlyReturn
    \/ line_sep4_step /\ NoEarlyReturn
    \/ line_repair_step /\ NoEarlyReturn
    \/ line_finish_step /\ NoEarlyReturn
SpecDown == Init /\ [][NextDown]_vars
-----------------------------------------------------------------------------

(* Two obtuse bends: C lies beyond B on one or the other side of the line   *)
(* through A and B, so that on one side of the new ENDPOINT in the null     *)
(* face of B there is room for the separator of the second segment and on   *)
(* the other side there is none.                                            *)

ObtusePoints == << {<<-3, 0>>}, {<<5, 0>>}, {<<9, 4>>, <<9, -4>>} >>
NextObtuse ==
    \/ /\ num_psites - 3 < Len(ObtusePoints)
       /\ \E p \in ObtusePoints[num_psites - 2], f \in DOMAIN g.face :
            insert_point_site(p, f)
       /\ NoEarlyReturn
    \/ /\ num_psites - 3 = Len(ObtusePoints)
       /\ num_lsites < Len(ObtusePoints) - 1
       /\ insert_line_site(hist.issued[num_lsites + 1][1], hist.issued[num_lsites + 2][1])
       /\ NoEarlyReturn
    \/ augment_vertex_set /\ NoEarlyReturn
    \/ augment_done /\ NoEarlyReturn
    \/ add_vertices_step /\ NoEarlyReturn
    \/ add_face_step /\ NoEarlyReturn
    \/ add_edges_step /\ NoEarlyReturn
    \/ add_edges_done /\ NoEarlyReturn
    \/ repair_remove_step /\ NoEarlyReturn
    \/ reset_return_step /\ NoEarlyReturn
    \/ line_edges_step /\ NoEarlyReturn
    \/ line_seed_step /\ NoEarlyReturn
    \/ line_sep1_step /\ NoEarlyReturn
    \/ line_sep2_step /\ NoEarlyReturn
    \/ line_sep3_step /\ NoEarlyReturn
    \/ line_sep4_step /\ NoEarlyReturn
    \/ line_repair_step /\ NoEarlyReturn
    \/ line_finish_step /\ NoEarlyReturn
SpecObtuse == Init /\ [][NextObtuse]_vars
-----------------------------------------------------------------------------
(* A point behind a segment: two points, the segment between them, then a   *)
(* third point on the line of the segment beyond its start point, every    *)
(* call with the default step argument.                                    *)

BehindPoints == << <<-3, 0>>, <<5, 0>>, <<-7, 0>> >>

NextBehind ==
    \/ /\ num_psites - 3 < Len(BehindPoints)
       /\ num_lsites = (IF num_psites - 3 < 2 THEN 0 ELSE 1)
       /\ \E f \in DOMAIN g.face : insert_point_site(BehindPoints[num_psites - 2], f)
       /\ NoEarlyReturn
    \/ /\ num_psites - 3 = 2
       /\ num_lsites = 0
       /\ insert_line_site(hist.issued[1][1], hist.issued[2][1])
       /\ NoEarlyReturn
    \/ augment_vertex_set /\ NoEarlyReturn
    \/ augment_done /\ NoEarlyReturn
    \/ add_vertices_step /\ NoEarlyReturn
    \/ add_face_step /\ NoEarlyReturn
    \/ add_edges_step /\ NoEarlyReturn
    \/ add_edges_done /\ NoEarlyReturn
    \/ repair_remove_step /\ NoEarlyReturn
    \/ reset_return_step /\ NoEarlyReturn
    \/ line_edges_step /\ NoEarlyReturn
    \/ line_seed_step /\ NoEarlyReturn
    \/ line_sep1_step /\ NoEarlyReturn
    \/ line_sep2_step /\ NoEarlyReturn
    \/ line_sep3_step /\ NoEarlyReturn
    \/ line_sep4_step /\ NoEarlyReturn
    \/ line_repair_step /\ NoEarlyReturn
    \/ line_finish_step /\ NoEarlyReturn

SpecBehind == Init /\ [][NextBehind]_vars
-----------------------------------------------------------------------------
(* The diagram between calls *)

\* no call is running, and the last one (if any) ran to completion
Settled == pc = "idle" /\ (ret.op = "none" \/ ret.completed)

PointCompleted == pc = "idle" /\ ret.op = "point" /\ ret.completed
LineCompleted == pc = "idle" /\ ret.op = "line" /\ ret.completed

\* C1: after the constructor and after every insert call that runs to
\* completion, every half-edge e that has a twin satisfies e.twin.twin = e,
\* and e.twin runs from target(e) to source(e).
C1_TwinSymmetry ==
    Settled =>
      \A e \in DOMAIN g.edge :
        g.edge[e].twin # NoE =>
          /\ g.edge[e].twin \in DOMAIN g.edge
          /\ g.edge[g.edge[e].twin].twin = e
          /\ g.edge[g.edge[e].twin].src = g.edge[e].trg
          /\ g.edge[g.edge[e].twin].trg = g.edge[e].src

\* a line site is in: the twinned edges include separators and the edges
\* add_edge made for the line site's two faces
C1_Witness ==
    /\ LineCompleted
    /\ \E e \in DOMAIN g.edge : g.edge[e].type = "SEPARATOR" /\ g.edge[e].twin # NoE
    /\ \E e \in DOMAIN g.edge : g.edge[e].face = NewF(g) - 1 /\ g.edge[e].twin # NoE

\* C2: after the constructor and after every completed insert call, following
\* next from any half-edge e returns to e after finitely many steps, and
\* every half-edge visited on that walk has the same face as e.
C2_NextRing ==
    Settled =>
      \A e \in DOMAIN g.edge :
        /\ RingOK(g, e)
        /\ \A x \in SeqSet(Ring(g, e)) : g.edge[x].face = g.edge[e].face

\* a line site is in, so repair_face, add_separator and find_null_face have
\* all set next pointers
C2_Witness ==
    /\ LineCompleted
    /\ \E e \in DOMAIN g.edge : g.edge[e].type = "NULLEDGE"
    /\ \E e \in DOMAIN g.edge : g.edge[e].type = "SEPARATOR"

\* C3: after the constructor and after every completed insert call, every
\* face f satisfies f.edge.face = f: the old faces split by add_edge and
\* add_separator, the null faces, and a face recorded as zero_point_face,
\* whose edge entry insert_line_site overwrites with the start null edge.
C3_FaceEdge ==
    Settled =>
      \A f \in DOMAIN g.face :
        /\ g.face[f].edge \in DOMAIN g.edge
        /\ g.edge[g.face[f].edge].face = f

\* the second segment of a chain is in: the face of the middle point is
\* zero_point_face, no half-edge has it as its face, and its edge entry is
\* the edge of the null face of the middle point
C3_ZeroFaceLeft ==
    /\ LineCompleted
    /\ zero_point_face \in DOMAIN g.face
    /\ isPoint(g.face[zero_point_face].site)
    /\ \A e \in DOMAIN g.edge : g.edge[e].face # zero_point_face
    /\ g.face[zero_point_face].edge \in DOMAIN g.edge
    /\ g.edge[g.face[zero_point_face].edge].face = null_face1
-----------------------------------------------------------------------------
(* Status marks of vertices and faces *)

\* C4: after any insert call that runs to completion no vertex has status IN
\* or NEW, and the vertices with status OUT are those of kind OUTER and the
\* POINTSITE, ENDPOINT and SEPPOINT vertices, which are created OUT and never
\* entered in modified_vertices.
C4_StatusAfterCall ==
    (PointCompleted \/ LineCompleted) =>
      \A v \in DOMAIN g.vert :
        /\ g.vert[v].status \notin {"IN", "NEW"}
        /\ g.vert[v].status = "OUT"
           => g.vert[v].type \in {"OUTER", "POINTSITE", "ENDPOINT", "SEPPOINT"}

\* a line site is in: vertices of every kind that stays OUT exist, next to
\* vertices the call marked NEW and reset
C4_Witness ==
    /\ LineCompleted
    /\ \A t \in {"OUTER", "POINTSITE", "ENDPOINT", "SEPPOINT"} :
         \E v \in DOMAIN g.vert : g.vert[v].type = t /\ g.vert[v].status = "OUT"
    /\ \E v \in DOMAIN g.vert :
         v > ret.new_vert /\ g.vert[v].type = "NORMAL" /\ g.vert[v].status = "UNDECIDED"

\* C4 as the specification states it: after a completed insert call only
\* vertices of kind OUTER have status IN, OUT or NEW.
C4_OnlyOuterMarked ==
    (PointCompleted \/ LineCompleted) =>
      \A v \in DOMAIN g.vert :
        g.vert[v].status \in {"IN", "OUT", "NEW"} => g.vert[v].type = "OUTER"

\* C5: every face whose status is INCIDENT appears exactly once in
\* incident_faces, at any moment of an insertion; after a completed insert no
\* face has status INCIDENT and incident_faces is empty.
C5_IncidentFaces ==
    /\ \A f \in DOMAIN g.face :
         g.face[f].status = "INCIDENT"
         => Cardinality({ i \in 1 .. Len(incident_faces) : incident_faces[i] = f }) = 1
    /\ (PointCompleted \/ LineCompleted)
       => /\ \A f \in DOMAIN g.face : g.face[f].status # "INCIDENT"
          /\ incident_faces = << >>

\* a line insertion has marked faces from several vertices, faces of point
\* sites and of the other line included
C5_Witness ==
    /\ pc = "add_edges"
    /\ call.op = "line"
    /\ Len(incident_faces) >= 3
    /\ \E f \in DOMAIN g.face : g.face[f].status = "INCIDENT"
    /\ Len(v0) >= 2
-----------------------------------------------------------------------------
(* Transient state at the return of a call *)

Returned == pc = "idle" /\ ret.op # "none"

\* C6: whenever a public insert call has returned (which is also when the
\* next one is entered), early step-mode returns included, vertexQueue,
\* modified_vertices, incident_faces and v0 are empty and segment_start,
\* segment_end, zero_point_face, null_face1 and null_face2 are null.
C6_TransientEmpty ==
    Returned =>
      /\ vertexQueue = {}
      /\ modified_vertices = {}
      /\ incident_faces = << >>
      /\ v0 = << >>
      /\ segment_start = NoV
      /\ segment_end = NoV
      /\ zero_point_face = NoF
      /\ null_face1 = NoF
      /\ null_face2 = NoF

\* C7: when an insert call has returned, normally or through an early
\* step-mode return, no vertex of the graph has status IN and v0 holds no
\* vertex.
C7_InVerticesRemoved ==
    Returned =>
      /\ v0 = << >>
      /\ \A v \in DOMAIN g.vert : g.vert[v].status # "IN"
-----------------------------------------------------------------------------
(* Counters, indices and the step argument *)

\* C8: after N insert_point_site calls and M insert_line_site calls have
\* returned, num_psites = N + 3 and num_lsites = M.
C8_SiteCounts ==
    pc = "idle" => (num_psites = hist.pcalls + 3 /\ num_lsites = hist.lcalls)

C8_Witness ==
    /\ pc = "idle"
    /\ hist.pcalls = 2
    /\ hist.lcalls = 1
    /\ num_psites = 5
    /\ num_lsites = 1

\* C9: the indices completed insert_point_site calls have returned differ
\* from each other, and find_endpoints maps each of them to the POINTSITE
\* vertex its call created, at every later moment.
C9_StableIndex ==
    /\ \A i, j \in 1 .. Len(hist.issued) :
         i # j => hist.issued[i][1] # hist.issued[j][1]
    /\ \A i \in 1 .. Len(hist.issued) :
         LET ep == find_endpoints(Cur, hist.issued[i][1], hist.issued[i][1])
         IN  /\ ep.ok
             /\ ep.start = hist.issued[i][2]
             /\ ep.start \in DOMAIN g.vert
             /\ g.vert[ep.start].type = "POINTSITE"

\* two indices are out and a line insertion between them has completed
C9_Witness ==
    /\ Len(hist.issued) = 2
    /\ LineCompleted

\* the face add_face makes for the point site of the last call
SiteFaces == { f \in DOMAIN g.face : g.face[f].site = PointSite(ret.new_vert) }

\* C10: insert_point_site(p, step) with step in 1..5 returns -1 at the
\* checkpoint with that number, with the work after that checkpoint not done;
\* with step = 6 (as with the default 0) it passes all five checkpoints, runs
\* to completion and returns the index of the new vertex.
C10_StepReturn ==
    (pc = "idle" /\ ret.op = "point") =>
      /\ ret.step \in 0 .. 6
      /\ ret.step \in 1 .. 5 => (ret.value = -1 /\ ~ret.completed)
      \* 1: the seed is IN, augment_vertex_set has not run
      /\ ret.step = 1 => (Len(v0) = 1 /\ SiteFaces = {})
      \* 2: the queue is empty, add_vertices has not run
      /\ ret.step = 2
         => /\ vertexQueue = {}
            /\ \A v \in DOMAIN g.vert : g.vert[v].status # "NEW"
            /\ SiteFaces = {}
      \* 3: the NEW vertices are in, add_face has not run
      /\ ret.step = 3
         => /\ \E v \in DOMAIN g.vert : g.vert[v].status = "NEW"
            /\ SiteFaces = {}
      \* 4: the face has its edges, remove_vertex_set has not run
      /\ ret.step = 4
         => /\ SiteFaces # {}
            /\ v0 # << >>
            /\ \A i \in 1 .. Len(v0) : v0[i] \in DOMAIN g.vert
      \* 5: the IN vertices are gone, reset_status has not run
      /\ ret.step = 5
         => /\ v0 # << >>
            /\ \A i \in 1 .. Len(v0) : v0[i] \notin DOMAIN g.vert
            /\ modified_vertices # {}
      /\ ret.step \in {0, 6}
         => /\ ret.completed
            /\ ret.value = g.vert[ret.new_vert].index
            /\ ret.value >= 0
            /\ modified_vertices = {}
            /\ v0 = << >>

\* a call made with step = 6 has returned
C10_Witness ==
    /\ pc = "idle"
    /\ ret.op = "point"
    /\ ret.step = 6
    /\ ret.completed

\* C10 as the specification states it: every step value in 1..6 makes
\* insert_point_site return -1 early.
C10_EveryStepReturnsEarly ==
    (pc = "idle" /\ ret.op = "point" /\ ret.step \in 1 .. 6) =>
      (ret.value = -1 /\ ~ret.completed)

-----------------------------------------------------------------------------
(* Rejected arguments *)

\* C11: a rejected insertion leaves the diagram unchanged: when
\* insert_point_site is called with a point not inside the far_radius circle,
\* or insert_line_site with an index insert_point_site never returned, the
\* call fails and the graph, vertex_map, num_psites and num_lsites are as
\* before the call.
C11_RejectedUnchanged ==
    [][pc' = "rejected"
       => /\ g' = g
          /\ vertex_map' = vertex_map
          /\ num_psites' = num_psites
          /\ num_lsites' = num_lsites]_vars

\* a call was rejected after completed calls, with its counter stepped
C11_RejectedCounted ==
    /\ pc = "rejected"
    /\ hist.pcalls + hist.lcalls >= 1
    /\ num_psites + num_lsites = hist.pcalls + hist.lcalls + 4

\* C12: insert_point_site completes and returns the index of the new site for
\* every point inside the far radius in every reachable state of the diagram,
\* states with line sites included: no call of insert_point_site ends in a
\* failed assert.
C12_PointInsertCompletes == ~(pc = "crashed" /\ call.op = "point")

\* a point is going in next to a segment: add_edges is about to run on the
\* face of a line site, with the two NEW vertices of the edge found
C12_LineFaceIncident ==
    /\ pc = "add_edges"
    /\ call.op = "point"
    /\ hist.lcalls = 1
    /\ call.i <= Len(incident_faces)
    /\ isLine(g.face[incident_faces[call.i]].site)
    /\ add_edges_ok(Cur, incident_faces[call.i])
    /\ find_edge_data(Cur, incident_faces[call.i], << >>).found2

-----------------------------------------------------------------------------
(* The frame the constructor builds *)

\* no call has returned: the diagram is as the constructor left it
Constructed == pc = "idle" /\ hist.calls = 0

EdgesOfType(t) == { e \in DOMAIN g.edge : g.edge[e].type = t }

\* C13: the frame built by the constructor has three faces and fifteen
\* half-edges: three of type OUTEDGE without a twin and twelve of type LINE
\* that are pairwise twinned (an APEX vertex splits each of the six bisector
\* half-edges in two).
C13_InitialFrame ==
    Constructed =>
      /\ Cardinality(DOMAIN g.face) = 3
      /\ Cardinality(DOMAIN g.edge) = 15
      /\ Cardinality(EdgesOfType("OUTEDGE")) = 3
      /\ Cardinality(EdgesOfType("LINE")) = 12
      /\ \A e \in EdgesOfType("OUTEDGE") : g.edge[e].twin = NoE
      /\ \A e \in EdgesOfType("LINE") :
           /\ g.edge[e].twin \in EdgesOfType("LINE") \ {e}
           /\ g.edge[g.edge[e].twin].twin = e

\* the constructed frame, with its APEX vertices
C13_Witness ==
    /\ Constructed
    /\ Cardinality({ v \in DOMAIN g.vert : g.vert[v].type = "APEX" }) = 3
    /\ Cardinality({ v \in DOMAIN g.vert : g.vert[v].type = "OUTER" }) = 3

\* C13 as the specification states it: nine half-edges, three OUTEDGE and
\* six LINE.
C13_NineHalfEdges ==
    Constructed =>
      /\ Cardinality(DOMAIN g.face) = 3
      /\ Cardinality(DOMAIN g.edge) = 9
      /\ Cardinality(EdgesOfType("OUTEDGE")) = 3
      /\ Cardinality(EdgesOfType("LINE")) = 6

-----------------------------------------------------------------------------
(* Sites of faces, faces of vertices *)

\* the null faces: the faces find_null_face has made at segment endpoints
NullFaces == { g.vert[v].null_face : v \in DOMAIN g.vert } \ {NoF}

\* C14: after the constructor and after every completed insert, every face
\* other than the null faces has exactly one site, a point site or a line
\* site; the null faces that find_null_face creates at segment endpoints,
\* which persist after the insertion, have no site.
C14_FaceSites ==
    Settled =>
      \A f \in DOMAIN g.face :
        IF f \in NullFaces
        THEN g.face[f].site = NoSite
        ELSE /\ g.face[f].site # NoSite
             /\ isPoint(g.face[f].site) \/ isLine(g.face[f].site)

\* a segment is in: its two line-site faces and the two null faces exist
C14_Witness ==
    /\ LineCompleted
    /\ Cardinality(NullFaces) = 2
    /\ NullFaces \subseteq DOMAIN g.face
    /\ Cardinality({ f \in DOMAIN g.face : isLine(g.face[f].site) }) = 2

\* C14 as the specification states it: every face has a site, the null
\* faces included.
C14_EveryFaceHasSite ==
    Settled => \A f \in DOMAIN g.face : g.face[f].site # NoSite

\* the half-edges that leave vertex v
OutEdges(v) == { e \in DOMAIN g.edge : g.edge[e].src = v }

\* C15: after every completed insert, every vertex of kind NORMAL has exactly
\* three outgoing half-edges, with three distinct faces; this includes the
\* NORMAL vertices that process_next_null / process_prev_null put into a
\* null-face ring or convert there.
C15_NormalDegree ==
    (PointCompleted \/ LineCompleted) =>
      \A v \in DOMAIN g.vert :
        g.vert[v].type = "NORMAL"
        => /\ Cardinality(OutEdges(v)) = 3
           /\ Cardinality({ g.edge[e].face : e \in OutEdges(v) }) = 3

\* the second segment of a bend is in, and a NORMAL vertex lies on a
\* null-face ring
C15_Witness ==
    /\ LineCompleted
    /\ hist.lcalls = 2
    /\ \E v \in DOMAIN g.vert :
         /\ g.vert[v].type = "NORMAL"
         /\ \E e \in OutEdges(v) : g.edge[e].type = "NULLEDGE"

-----------------------------------------------------------------------------
(* SPLIT vertices *)

\* the faces on whose ring vertex v lies
FacesOf(v) == { g.edge[e].face : e \in OutEdges(v) }

\* C16: after every insert_line_site call that runs to completion the graph
\* has no vertex of kind SPLIT; while the call runs, from the moment the
\* vertex set is grown to the removal, every SPLIT vertex lies on a face of
\* incident_faces.
C16_NoSplitVertex ==
    /\ LineCompleted => num_split_vertices(g) = 0
    /\ pc = "l_finish"
       => \A v \in DOMAIN g.vert :
            g.vert[v].type = "SPLIT"
            => \E i \in 1 .. Len(incident_faces) : incident_faces[i] \in FacesOf(v)

\* a segment is in whose insertion removed a SPLIT vertex at its end
C16_Witness ==
    /\ LineCompleted
    /\ ret.nsplit > 0
    /\ num_split_vertices(g) = 0
-----------------------------------------------------------------------------
(* check() *)

\* a step of check(): the program stays between two calls and the value
\* returned is that of check()
CheckStep == pc = "idle" /\ pc' = "idle" /\ ret'.op = "check"

-----------------------------------------------------------------------------
(* augment_vertex_set *)

\* the popped entry t = (v, h) goes IN: h < 0, not C4, C5, in the region of
\* the site
GoesIn(t) ==
    /\ t[2] < 0
    /\ ~predicate_c4(Cur, t[1])
    /\ predicate_c5(Cur, t[1])
    /\ in_region(Cur, CallSite(call), t[1])

\* an iteration of the loop of augment_vertex_set in which no assert fails
LoopStep ==
    /\ pc = "augment"
    /\ vertexQueue # {}
    /\ pc' # "crashed"
    /\ ret'.op # "predicate_c5"

\* C18: in augment_vertex_set a popped vertex v is marked IN if and only if
\* its queued in_circle value is < 0, predicate_c4(v) is false,
\* predicate_c5(v) is true and the region of the site contains v; in every
\* other case v is marked OUT; in both cases v is recorded in
\* modified_vertices and the loop goes on with the next queue entry.
C18_AugmentDecision ==
    [][LoopStep
       => \E t \in QueueTop(vertexQueue) :
            /\ t \notin vertexQueue'
            /\ g'.vert[t[1]].status = (IF GoesIn(t) THEN "IN" ELSE "OUT")
            /\ t[1] \in modified_vertices'
            /\ pc' = "augment"]_vars

\* the loop has marked a vertex with negative in_circle OUT that has two IN
\* neighbours
C18_Witness ==
    /\ pc = "augment"
    /\ \E v \in modified_vertices \cap DOMAIN g.vert \cap DOMAIN hval :
         /\ g.vert[v].status = "OUT"
         /\ hval[v].h < 0
         /\ predicate_c4(Cur, v)
-----------------------------------------------------------------------------
(* predicate_c5 *)

\* the vertices other than v on the ring of face f
OnFace(f, v) == { g.edge[e].trg : e \in { x \in DOMAIN g.edge : g.edge[x].face = f } } \ {v}

\* the faces adjacent to v that are flagged INCIDENT
IncidentAround(v) ==
    { f \in DOMAIN g.face :
        g.face[f].status = "INCIDENT"
        /\ \E e \in DOMAIN g.edge : g.edge[e].src = v /\ g.edge[e].face = f }

\* face f holds an IN vertex other than v that an edge joins to v
InNeighbourOn(f, v) ==
    \E w \in OnFace(f, v) :
       /\ g.vert[w].status = "IN"
       /\ \E e \in DOMAIN g.edge : g.edge[e].src = w /\ g.edge[e].trg = v

\* face f holds a vertex other than v of kind ENDPOINT, APEX or SPLIT
SpecialOn(f, v) ==
    \E w \in OnFace(f, v) : g.vert[w].type \in {"ENDPOINT", "APEX", "SPLIT"}

\* a call of predicate_c5 has returned
C5Returned == ret.op = "predicate_c5"

-----------------------------------------------------------------------------
(* The delete tree v0 *)

\* the vertices with status IN
InVertices == { v \in DOMAIN g.vert : g.vert[v].status = "IN" }

\* the IN vertices an edge joins to v
InNeighbours(v) ==
    { w \in InVertices \ {v} :
        \E e \in DOMAIN g.edge : g.edge[e].src = v /\ g.edge[e].trg = w }

\* the IN vertices reached from the set S along edges between IN vertices
RECURSIVE InReach(_)
InReach(S) ==
    IF \A v \in S : InNeighbours(v) \subseteq S THEN S
    ELSE InReach(S \cup UNION { InNeighbours(v) : v \in S })

\* the number of pairs of IN vertices that an edge joins
InLinks == Cardinality({ p \in SUBSET InVertices : \E v \in p : \E w \in InNeighbours(v) : p = {v, w} })

\* v0 holds the IN vertices, each once, and they form a tree
DeleteTree ==
    /\ SeqSet(v0) = InVertices
    /\ Len(v0) = Cardinality(InVertices)
    /\ InVertices # {} =>
         /\ InReach({CHOOSE v \in InVertices : TRUE}) = InVertices
         /\ InLinks = Cardinality(InVertices) - 1

\* an iteration of the loop of augment_vertex_set marks its vertex IN
MarkedInStep == LoopStep /\ Len(v0') = Len(v0) + 1

\* a call is between its entry and its remove_vertex_set
Growing == pc \notin {"idle", "reset", "l_finish", "crashed", "rejected"}

\* a call is between its remove_vertex_set and its reset_status
Removed == pc \in {"reset", "l_finish"}

\* C20: from the entry of an insertion to its remove_vertex_set the vertices
\* of v0 are exactly the vertices with status IN, each once, and the
\* subgraph they induce is connected and acyclic; a vertex that
\* augment_vertex_set marks IN has exactly one IN neighbour at that moment,
\* also where SPLIT vertices have been put into edges while the tree grows.
\* From remove_vertex_set to reset_status no vertex has status IN and v0
\* still lists the vertices removed.
C20_DeleteTree ==
    /\ [](Growing => DeleteTree)
    /\ [](Removed => InVertices = {} /\ SeqSet(v0) \cap DOMAIN g.vert = {})
    /\ [][MarkedInStep => Cardinality(InNeighbours(v0'[Len(v0')])) = 1]_vars

\* the tree has grown to three vertices in a graph that holds a SPLIT vertex
C20_Witness ==
    /\ pc = "augment"
    /\ Len(v0) >= 3
    /\ \E v \in DOMAIN g.vert : g.vert[v].type = "SPLIT"

\* C20 as the specification states it: at every moment of an insertion,
\* the moments after remove_vertex_set included, v0 holds exactly the IN
\* vertices.
C20_EveryMoment ==
    (pc \notin {"idle", "crashed", "rejected"})
    => SeqSet(v0) = InVertices /\ Len(v0) = Cardinality(InVertices)
-----------------------------------------------------------------------------

(* ---- C21 ---- *)

-----------------------------------------------------------------------------

(* ---- C22 ---- *)

\* the faces that the loop of augment_vertex_set can still mark INCIDENT
AugmentFaces == Cardinality({ f \in DOMAIN g.face : g.face[f].status # "INCIDENT" })

\* the entries of the queue and the vertices that have never been pushed
AugmentRank ==
    Cardinality(vertexQueue)
    + Cardinality({ v \in DOMAIN g.vert : ~g.vert[v].in_queue })

\* C22: augment_vertex_set terminates with vertexQueue empty: every
\* iteration pops one entry and pushes only vertices that were never pushed
\* before; SPLIT vertices are created only in an iteration that turns a face
\* INCIDENT, and no face is created or turned back. The pair (AugmentFaces,
\* AugmentRank) of naturals therefore goes down in the lexicographic order
\* in every iteration; the loop is left only when the queue is empty
C22_AugmentTerminates ==
    /\ [][LoopStep =>
            /\ \E t \in QueueTop(vertexQueue) : t \notin vertexQueue'
            /\ \A u \in vertexQueue' \ vertexQueue :
                 /\ (u[1] \in DOMAIN g.vert => ~g.vert[u[1]].in_queue)
                 /\ g'.vert[u[1]].in_queue
            /\ \A v \in DOMAIN g.vert :
                 g.vert[v].in_queue => v \in DOMAIN g'.vert /\ g'.vert[v].in_queue
            /\ DOMAIN g'.face = DOMAIN g.face
            /\ \/ AugmentFaces' < AugmentFaces
               \/ AugmentFaces' = AugmentFaces /\ AugmentRank' < AugmentRank]_vars
    /\ [][pc = "augment" /\ pc' \notin {"augment", "crashed"} => vertexQueue = {}]_vars

\* the loop has ended with an empty queue after it marked more than the seed
\* IN and a SPLIT vertex was created on the way
C22_Witness ==
    /\ pc = "add_vertices"
    /\ vertexQueue = {}
    /\ Len(v0) > 1
    /\ \E v \in DOMAIN g.vert : g.vert[v].type = "SPLIT"
-----------------------------------------------------------------------------

(* ---- C23 ---- *)

\* the half-edges that run from an IN vertex to a vertex with status st
InEdgesTo(st) ==
    { e \in DOMAIN g.edge :
        /\ g.vert[g.edge[e].src].status = "IN"
        /\ g.vert[g.edge[e].trg].status = st }

\* add_vertices has run (and no assert has failed in it)
AddVerticesStep == pc = "add_vertices" /\ pc' # "crashed"

\* the vertices add_vertices has created
AddedVertices == DOMAIN g'.vert \ DOMAIN g.vert

\* C23: after augment_vertex_set no vertex adjacent to an IN vertex is
\* UNDECIDED; add_vertices puts exactly one NEW NORMAL vertex into each
\* half-edge that ran from an IN vertex to an OUT vertex, and after it no
\* half-edge joins an IN vertex directly to an OUT or UNDECIDED vertex
C23_InOutEdgesSplit ==
    /\ [](pc = "add_vertices" => InEdgesTo("UNDECIDED") = {})
    /\ [][AddVerticesStep =>
            /\ Cardinality(AddedVertices) = Cardinality(InEdgesTo("OUT"))
            /\ \A q \in AddedVertices :
                 /\ g'.vert[q].status = "NEW"
                 /\ g'.vert[q].type = "NORMAL"
            /\ \A e \in InEdgesTo("OUT") :
                 /\ e \notin DOMAIN g'.edge
                 /\ Cardinality({ q \in AddedVertices :
                        { g'.edge[x].trg : x \in { y \in DOMAIN g'.edge : g'.edge[y].src = q } }
                           = { g.edge[e].src, g.edge[e].trg } }) = 1
            /\ \A q \in AddedVertices :
                 /\ Cardinality({ y \in DOMAIN g'.edge : g'.edge[y].src = q }) = 2
                 /\ \E e \in InEdgesTo("OUT") :
                      { g'.edge[x].trg : x \in { y \in DOMAIN g'.edge : g'.edge[y].src = q } }
                         = { g.edge[e].src, g.edge[e].trg }
            /\ \A e \in DOMAIN g'.edge :
                 g'.vert[g'.edge[e].src].status = "IN"
                    => g'.vert[g'.edge[e].trg].status \in {"IN", "NEW"}]_vars

\* add_vertices has put NEW vertices into more than one IN-OUT edge of a
\* delete tree of more than one vertex
C23_Witness ==
    /\ pc \in {"add_face", "l_sep1"}
    /\ Len(v0) > 1
    /\ Cardinality({ v \in DOMAIN g.vert : g.vert[v].status = "NEW" }) > 2
    /\ InEdgesTo("OUT") = {}
-----------------------------------------------------------------------------

(* ---- C24 ---- *)

\* the NEW vertices on the ring of face f
NewOnRing(f) ==
    { v \in { g.edge[e].trg : e \in SeqSet(FaceRing(Cur, f)) \ {NoE} } :
        IsNewVertex(Cur, v) }

\* insert_point_site runs add_edges on the next face of incident_faces (and
\* no assert fails in it)
PointAddEdgesStep ==
    /\ pc = "add_edges"
    /\ call.op = "point"
    /\ call.i <= Len(incident_faces)
    /\ pc' # "crashed"

AddedEdges == DOMAIN g'.edge \ DOMAIN g.edge

-----------------------------------------------------------------------------

(* ---- C25 ---- *)

\* add_edges runs on the next INCIDENT face and adds something (no assert
\* fails in it)
AddEdgesStep ==
    /\ pc = "add_edges"
    /\ call.i <= Len(incident_faces)
    /\ pc' # "crashed"
    /\ AddedEdges # {}

\* the far end of the line add_edge holds the NEW vertices against: the new
\* point site, or for a new line site its apex_point for the point pt1
SignLineEnd(pt1) ==
    apex_point(Cur, g.face[call.newface].site, pt1)

\* is_right has one result for v against the line from pt1 to pt2
Decisive(v, pt1, pt2) ==
    /\ Position(Cur, v) # NoPos
    /\ Cardinality(IsRightVals(Position(Cur, v), pt1, pt2)) = 1

\* C25: add_edge adds an APEX vertex and two twin pairs exactly when the
\* face f has a point site and its two NEW vertices lie on opposite sides
\* of the line from that point site to the new site (its apex_point for a
\* line site); with both on one side, or with two line sites, it adds a
\* single twin pair
C25_ApexSplit ==
    [][AddEdgesStep =>
         \E f \in {incident_faces[call.i]} :
           /\ AddedVertices # {} =>
                /\ isPoint(g.face[f].site)
                /\ Cardinality(AddedVertices) * 4 = Cardinality(AddedEdges)
                /\ \A a \in AddedVertices : g'.vert[a].type = "APEX"
           /\ AddedVertices = {} => Cardinality(AddedEdges) = 2 * new_pairs(Cur, f)
           /\ isLine(g.face[f].site) /\ isLine(g.face[call.newface].site)
                => AddedVertices = {}
           /\ isPoint(g.face[f].site) /\ Cardinality(NewOnRing(f)) = 2 =>
                \E pt1 \in {Position(Cur, g.face[f].site.a)} :
                \E pt2 \in {SignLineEnd(pt1)} :
                   (\A v \in NewOnRing(f) : Decisive(v, pt1, pt2))
                   => ((AddedVertices # {})
                         <=> (Cardinality({ Cross(pt1, pt2, Position(Cur, v)) < 0 :
                                             v \in NewOnRing(f) }) = 2))]_vars

\* a segment is being inserted and add_edge has joined two NEW vertices on a
\* line-site face by a single twin pair, after a point-site face got an APEX
C25_Witness ==
    /\ pc = "add_edges"
    /\ call.op = "line"
    /\ \E e \in DOMAIN g.edge :
         /\ isLine(g.face[g.edge[e].face].site)
         /\ g.edge[e].face \in SeqSet(incident_faces)
         /\ g.edge[g.edge[e].twin].face \in {call.newface, call.newface2}
         /\ IsNewVertex(Cur, g.edge[e].src)
         /\ IsNewVertex(Cur, g.edge[e].trg)
    /\ \E a \in DOMAIN g.vert : g.vert[a].type = "APEX" /\ g.vert[a].status = "NEW"
-----------------------------------------------------------------------------

(* ---- C26 ---- *)

\* the positions in call.ops of the calls whose name is in the set names
OpsAt(names) == { i \in 1 .. Len(call.ops) : call.ops[i] \in names }

RepairCalls == {"repair_face(newface)", "repair_face(pos_face)", "repair_face(neg_face)"}

\* every call named in first is made before every call named in then
Before(first, then) == \A i \in OpsAt(first), j \in OpsAt(then) : i < j

\* the statement as written: in every insertion repair_face runs after all
\* add_edges calls and before remove_vertex_set
C26_RepairBeforeRemove ==
    /\ Before({"add_edges"}, RepairCalls)
    /\ Before(RepairCalls, {"remove_vertex_set"})

\* C26: in every insertion repair_face and remove_vertex_set run after all
\* new edges have been added; insert_point_site repairs the new face before
\* it deletes the IN vertices, insert_line_site deletes the IN vertices
\* before it repairs the positive and then the negative face
C26_TailOrder ==
    /\ Before({"add_edges"}, RepairCalls \cup {"remove_vertex_set"})
    /\ call.op = "point" => Before(RepairCalls, {"remove_vertex_set"})
    /\ call.op = "line" =>
         /\ Before({"remove_vertex_set"}, RepairCalls)
         /\ Before({"repair_face(pos_face)"}, {"repair_face(neg_face)"})
    /\ pc = "reset" =>
         /\ Cardinality(OpsAt({"repair_face(newface)"})) = 1
         /\ Cardinality(OpsAt({"remove_vertex_set"})) = 1
         /\ OpsAt({"add_edges"}) # {}
    /\ pc = "l_finish" =>
         /\ Cardinality(OpsAt({"repair_face(pos_face)"})) = 1
         /\ Cardinality(OpsAt({"repair_face(neg_face)"})) = 1
         /\ Cardinality(OpsAt({"remove_vertex_set"})) = 1
         /\ OpsAt({"add_edges"}) # {}

\* insert_line_site has deleted the IN vertices and repaired both new faces
\* after adding edges on more than one face
C26_Witness ==
    /\ pc = "l_finish"
    /\ Cardinality(OpsAt({"add_edges"})) > 1
    /\ OpsAt(RepairCalls) # {}
    /\ v0 # << >>
    /\ SeqSet(v0) \cap DOMAIN g.vert = {}
-----------------------------------------------------------------------------

(* ---- C27 ---- *)

\* find_seed_vertex has returned and its vertex has been marked: the first
\* vertex of v0 is the seed
SeedStep ==
    /\ pc \in {"idle", "l_seed"}
    /\ v0 = << >>
    /\ v0' # << >>
    /\ pc' = "augment"

\* the ring of f as find_seed_vertex walks it, from g[f].edge
SeedRing(f) == IF FaceRingOK(Cur, f) THEN FaceRing(Cur, f) ELSE << >>

\* the positions on the ring of f of the vertices of type NORMAL with a
\* status other than OUT
SeedPlaces(f) ==
    { i \in 1 .. Len(SeedRing(f)) :
        /\ g.vert[g.edge[SeedRing(f)[i]].trg].type = "NORMAL"
        /\ g.vert[g.edge[SeedRing(f)[i]].trg].status # "OUT" }

SeedCandidates(f) == { g.edge[SeedRing(f)[i]].trg : i \in SeedPlaces(f) }

\* the first of them on the walk
FirstCandidate(f) ==
    g.edge[SeedRing(f)[CHOOSE i \in SeedPlaces(f) : \A j \in SeedPlaces(f) : i <= j]].trg

\* the seed s has status other than OUT and type NORMAL on face f, lies in
\* the region of the site, and its in_circle value is negative and the
\* least among such vertices of f
SeedOn(s, f, h) ==
    /\ s \in SeedCandidates(f)
    /\ SeedCandidates(f) \subseteq DOMAIN h
    /\ h[s].h < 0
    /\ h[s].r
    /\ \A q \in SeedCandidates(f) : h[q].h < 0 /\ h[q].r => h[s].h <= h[q].h

SeedFrom(s, f, h) ==
    /\ s \in SeedCandidates(f)
    /\ SeedCandidates(f) \subseteq DOMAIN h
    /\ h[s].h < 0
    /\ \A q \in SeedCandidates(f) : h[q].r => h[s].h <= h[q].h
    /\ h[s].r \/ s = FirstCandidate(f)

-----------------------------------------------------------------------------

(* ---- C28 ---- *)

\* insert_line_site has made its two find_null_face calls and goes on
NullFacesStep == pc = "idle" /\ pc' = "l_edges"

\* the half-edges of the ring of face nf after the step
NewNullRing(nf) == SeqSet(Ring(g', g'.face[nf].edge))

\* what find_null_face leaves for the endpoint start that had no null face:
\* a new face nf with a ring of three NULLEDGE half-edges over one new
\* ENDPOINT and two new SEPPOINT vertices, the three twins NULLEDGE with the
\* face of the point site, and nf in g[start].null_face
NewNullFace(start) ==
    \E nf \in {g'.vert[start].null_face} :
       /\ nf \in DOMAIN g'.face \ DOMAIN g.face
       /\ RingOK(g', g'.face[nf].edge)
       /\ Cardinality(NewNullRing(nf)) = 3
       /\ NewNullRing(nf) = { e \in DOMAIN g'.edge : g'.edge[e].face = nf }
       /\ \A e \in NewNullRing(nf) :
            /\ g'.edge[e].type = "NULLEDGE"
            /\ g'.edge[e].trg \in AddedVertices
            /\ g'.edge[g'.edge[e].twin].type = "NULLEDGE"
            /\ g'.edge[g'.edge[e].twin].face = g.vert[start].face
            /\ g'.edge[g'.edge[e].twin].twin = e
       /\ Cardinality({ e \in NewNullRing(nf) : g'.vert[g'.edge[e].trg].type = "ENDPOINT" }) = 1
       /\ Cardinality({ e \in NewNullRing(nf) : g'.vert[g'.edge[e].trg].type = "SEPPOINT" }) = 2

\* C28: for an endpoint without a null face find_null_face makes one new
\* face whose ring is three NULLEDGE half-edges over one ENDPOINT and two
\* SEPPOINT vertices, gives the three twins (NULLEDGE too) the face of the
\* point site, and records the new face in the null_face of the endpoint
C28_NewNullFace ==
    [][NullFacesStep =>
         /\ \A s \in {call'.start, call'.end} :
              g.vert[s].null_face = NoF => NewNullFace(s)
         /\ Cardinality(DOMAIN g'.face \ DOMAIN g.face)
              = Cardinality({ s \in {call'.start, call'.end} : g.vert[s].null_face = NoF })]_vars

\* a segment has been entered whose start has a null face already and whose
\* end has got a new one
C28_Witness ==
    /\ pc = "l_edges"
    /\ num_lsites = 2
    /\ null_face1 # null_face2
    /\ \E e \in DOMAIN g.edge : g.edge[e].face = null_face2
    /\ Cardinality({ e \in DOMAIN g.edge : g.edge[e].face = null_face2 }) = 3
    /\ Cardinality({ e \in DOMAIN g.edge : g.edge[e].face = null_face1 }) > 3
-----------------------------------------------------------------------------

(* ---- C29 ---- *)

\* the point-site vertices that have a null face
WithNullFace == { v \in DOMAIN g.vert : g.vert[v].null_face # NoF }

\* the vertices on the ring of face nf before and after the step
RingVertices(nf) == { g.edge[e].trg : e \in SeqSet(FaceRing(Cur, nf)) }
NewRingVertices(nf) == { g'.edge[e].trg : e \in NewNullRing(nf) }

\* the first vertex after v (before v) on the ring of nf after the step that
\* was in the graph before the step
RECURSIVE OldAfter(_, _)
OldAfter(nf, v) ==
    LET n == g'.edge[CHOOSE e \in NewNullRing(nf) : g'.edge[e].src = v].trg
    IN  IF n \in AddedVertices THEN OldAfter(nf, n) ELSE n

RECURSIVE OldBefore(_, _)
OldBefore(nf, v) ==
    LET n == g'.edge[CHOOSE e \in NewNullRing(nf) : g'.edge[e].trg = v].src
    IN  IF n \in AddedVertices THEN OldBefore(nf, n) ELSE n

\* the null face nf of an endpoint has got exactly one new ENDPOINT vertex
\* on its ring, inside an edge of the ring whose end alfas bracket the alfa
\* of the new ENDPOINT (the alfa of the segment)
ReusedNullFace(nf) ==
    /\ nf \in DOMAIN g.face
    /\ RingOK(g', g'.face[nf].edge)
    /\ Cardinality({ v \in NewRingVertices(nf) : g'.vert[v].type = "ENDPOINT" })
         = Cardinality({ v \in RingVertices(nf) : g.vert[v].type = "ENDPOINT" }) + 1
    /\ \E E \in NewRingVertices(nf) \cap AddedVertices :
         /\ g'.vert[E].type = "ENDPOINT"
         /\ \A x \in (NewRingVertices(nf) \cap AddedVertices) \ {E} :
              g'.vert[x].type # "ENDPOINT"
         /\ \E e \in SeqSet(FaceRing(Cur, nf)) :
              /\ g.edge[e].src = OldBefore(nf, E)
              /\ g.edge[e].trg = OldAfter(nf, E)
              /\ diangle_bracket(g.vert[g.edge[e].src].alfa, g'.vert[E].alfa,
                                 g.vert[g.edge[e].trg].alfa)

\* C29: over any sequence of line insertions a point-site vertex has at most
\* one null face: the first segment that ends there creates it, every later
\* one keeps it and adds exactly one ENDPOINT vertex to its ring, in an edge
\* whose end alfas bracket the alfa of the new segment
C29_OneNullFace ==
    /\ [](/\ \A u, v \in WithNullFace : u # v => g.vert[u].null_face # g.vert[v].null_face
          /\ \A v \in WithNullFace : g.vert[v].type = "POINTSITE"
          /\ NullFaces = { g.vert[v].null_face : v \in WithNullFace })
    /\ [][NullFacesStep =>
            /\ \A s \in {call'.start, call'.end} :
                 /\ g'.vert[s].null_face # NoF
                 /\ g.vert[s].null_face # NoF =>
                      /\ g'.vert[s].null_face = g.vert[s].null_face
                      /\ ReusedNullFace(g.vert[s].null_face)
            /\ \A v \in WithNullFace : g'.vert[v].null_face = g.vert[v].null_face]_vars

\* a second segment has been entered at a point site and its ENDPOINT has
\* gone into the ring of the null face that the first segment made there
C29_Witness ==
    /\ pc = "l_edges"
    /\ num_lsites = 2
    /\ Cardinality({ e \in DOMAIN g.edge :
                       /\ g.edge[e].face = null_face1
                       /\ g.vert[g.edge[e].trg].type = "ENDPOINT" }) = 2
-----------------------------------------------------------------------------

(* ---- C30 ---- *)

\* the separator endpoint and the point-site face that the step at pc works on
SepEndp ==
    CASE pc = "l_sep1" -> call.pos_sep_start
      [] pc = "l_sep2" -> call.neg_sep_start
      [] pc = "l_sep3" -> call.pos_sep_end
      [] pc = "l_sep4" -> call.neg_sep_end
      [] OTHER -> NoV

SepFace == IF pc \in {"l_sep1", "l_sep2"} THEN call.start_face ELSE call.end_face

\* a step that adds the separator of SepEndp: the asserts of
\* find_separator_target and add_separator have passed
SeparatorStep ==
    /\ pc \in {"l_sep1", "l_sep2", "l_sep3", "l_sep4"}
    /\ pc' \notin {pc, "crashed"}
    /\ SepEndp # NoV

\* t is the middle of an OUT-NEW-IN or IN-NEW-OUT triple of consecutive
\* vertices on face f
InTriple(t, f) ==
    \E a \in DOMAIN g.edge :
      /\ g.edge[a].face = f
      /\ g.edge[a].trg = t
      /\ g.edge[a].next \in DOMAIN g.edge
      /\ g.vert[t].status = "NEW"
      /\ << g.vert[g.edge[a].src].status, g.vert[g.edge[g.edge[a].next].trg].status >>
           \in { <<"OUT", "IN">>, <<"IN", "OUT">> }

\* the face of the line site on the side k3: newface is the face of the
\* positive site, newface2 that of the negative site
LineSideFace(k3) == IF k3 = -1 THEN call.newface2 ELSE call.newface

-----------------------------------------------------------------------------

(* ---- C31 ---- *)

\* insert_line_site stands before its last checkpoint: the separators and the
\* edges have been added, the IN vertices removed, the two new faces repaired
LineStitched == pc = "l_finish" /\ call.op = "line"

\* face f has a SEPARATOR half-edge whose twin lies on one of the two faces
\* of the new line site
SeparatorTo(f) ==
    \E e \in DOMAIN g.edge :
      /\ g.edge[e].type = "SEPARATOR"
      /\ g.edge[e].face = f
      /\ g.edge[e].twin \in DOMAIN g.edge
      /\ g.edge[g.edge[e].twin].type = "SEPARATOR"
      /\ g.edge[g.edge[e].twin].face \in {call.newface, call.newface2}

\* the NEW vertices on the half-edges of face f
NewOn(f) ==
    { v \in DOMAIN g.vert :
        /\ g.vert[v].status = "NEW"
        /\ \E e \in DOMAIN g.edge : g.edge[e].face = f /\ g.edge[e].trg = v }

\* v is the source of a half-edge of one of the two faces of the new line site
JoinedToLine(v) ==
    \E e \in DOMAIN g.edge :
      g.edge[e].src = v /\ g.edge[e].face \in {call.newface, call.newface2}

\* the separator endpoint s is joined by a SEPARATOR twin pair that has one
\* half-edge on face f and one on a face of the new line site
SeparatorFrom(s, f) ==
    \E e \in DOMAIN g.edge :
      /\ g.edge[e].type = "SEPARATOR"
      /\ g.edge[e].src = s
      /\ g.edge[e].twin \in DOMAIN g.edge
      /\ {g.edge[e].face, g.edge[g.edge[e].twin].face} \cap {call.newface, call.newface2} # {}
      /\ f \in {g.edge[e].face, g.edge[g.edge[e].twin].face}

\* add_edges has been called once for every incident face other than the
\* start and the end face, and every NEW vertex on an incident face is joined
\* to the faces of the new line site
OthersStitched ==
    /\ Cardinality({ i \in DOMAIN call.ops : call.ops[i] = "add_edges" })
         = Cardinality(SeqSet(incident_faces) \ {call.start_face, call.end_face})
    /\ \A f \in SeqSet(incident_faces) : \A v \in NewOn(f) : JoinedToLine(v)

\* add_edges is not called on the start or the end face
NotOnEndFaces ==
    [][/\ pc = "add_edges" /\ call.op = "line"
       /\ pc' = "add_edges" /\ Len(call'.ops) > Len(call.ops)
       => incident_faces[call.i] \notin {call.start_face, call.end_face}]_vars

\* C31 as stated: in a completed insert_line_site every face that was
\* flagged INCIDENT has been stitched: the start and the end point-site face
\* by at least one SEPARATOR pair each, every other one by add_edges;
\* add_edges is never called on the start or the end face, and no incident
\* face is left with a NEW vertex that is not joined to the faces of the new
\* line site
C31_SeparatorEach ==
    /\ [](LineStitched =>
            /\ SeparatorTo(call.start_face)
            /\ SeparatorTo(call.end_face)
            /\ OthersStitched)
    /\ NotOnEndFaces

\* C31: in a completed insert_line_site the start and the end point-site
\* face have one SEPARATOR pair for each separator endpoint that
\* find_null_face returned for them; an end face for which it returned none
\* is the zero_point_face and gets no SEPARATOR pair. Every other incident
\* face is stitched by add_edges, add_edges is never called on the start or
\* the end face, and no incident face is left with a NEW vertex that is not
\* joined to the faces of the new line site
C31_LineStitched ==
    /\ [](LineStitched =>
            /\ \A s \in {call.pos_sep_start, call.neg_sep_start} \ {NoV} :
                 SeparatorFrom(s, call.start_face)
            /\ \A s \in {call.pos_sep_end, call.neg_sep_end} \ {NoV} :
                 SeparatorFrom(s, call.end_face)
            /\ {call.pos_sep_start, call.neg_sep_start} = {NoV}
                 => zero_point_face = call.start_face /\ ~SeparatorTo(call.start_face)
            /\ {call.pos_sep_end, call.neg_sep_end} = {NoV}
                 => zero_point_face = call.end_face /\ ~SeparatorTo(call.end_face)
            /\ OthersStitched)
    /\ NotOnEndFaces

\* a line insertion stands before its last checkpoint with no separator
\* endpoint at its start, two at its end and a face other than the start and
\* the end face among the incident faces
C31_Witness ==
    /\ LineStitched
    /\ {call.pos_sep_start, call.neg_sep_start} = {NoV}
    /\ {call.pos_sep_end, call.neg_sep_end} \cap {NoV} = {}
    /\ SeqSet(incident_faces) \ {call.start_face, call.end_face} # {}
    /\ {call.start_face, call.end_face} \subseteq SeqSet(incident_faces)
-----------------------------------------------------------------------------

(* ---- C32 ---- *)

\* a step that has called mark_adjacent_faces for a line site and, in it,
\* add_split_vertex with a face on which find_split_edges was asked
SplitStep ==
    /\ pc \in {"l_seed", "augment"}
    /\ pc' = "augment"
    /\ split_calls' # << >>
    /\ DOMAIN g'.vert # DOMAIN g.vert \/ split_calls' # split_calls

\* the SPLIT vertices that the step has created for the call c: they carry
\* the position of the point site of c.f
SplitVerticesOf(c) ==
    { v \in AddedVertices :
        /\ g'.vert[v].type = "SPLIT"
        /\ g'.vert[v].ref = Position(Cur, g.face[c.f].site.a) }

\* C32 as stated: when the root bracket is not found for one split edge of a
\* face, or the edge is a SEPARATOR or LINESITE edge, add_split_vertex skips
\* only that edge: every other edge that find_split_edges returned for the
\* face receives its SPLIT vertex
C32_SkipsOnlyThatEdge ==
    [][SplitStep =>
         \A i \in DOMAIN split_calls' :
           Cardinality(SplitVerticesOf(split_calls'[i]))
             >= Len(split_calls'[i].edges) - Cardinality(split_calls'[i].stop)]_vars

\* C32: add_split_vertex gives the edges that find_split_edges returned
\* their SPLIT vertices in order and returns at the first edge that is a
\* SEPARATOR or LINESITE edge or has no root bracket: the edges before it
\* have received a SPLIT vertex, that edge and all edges after it have not
C32_ReturnsAtThatEdge ==
    [][SplitStep =>
         \A i \in DOMAIN split_calls' :
           LET c == split_calls'[i]
               n == Cardinality(SplitVerticesOf(c))
           IN  /\ n <= Len(c.edges)
               /\ n < Len(c.edges) => c.edges[n + 1] \in c.stop
               /\ \A j \in 1 .. n : c.edges[j] \notin DOMAIN g'.edge]_vars

\* add_split_vertex has returned at an edge that was not the last of the
\* edges of find_split_edges: the face is INCIDENT and the edge after it,
\* which had a root bracket, is still in the graph
C32_Witness ==
    /\ pc = "augment"
    /\ \E i \in DOMAIN split_calls :
         LET c == split_calls[i]
         IN  /\ g.face[c.f].status = "INCIDENT"
             /\ \E j \in 1 .. Len(c.edges) - 1 :
                  /\ c.edges[j] \in c.stop
                  /\ c.edges[j] \in DOMAIN g.edge
                  /\ c.edges[j + 1] \notin c.stop
                  /\ c.edges[j + 1] \in DOMAIN g.edge
-----------------------------------------------------------------------------

(* ---- C33 ---- *)

\* the null faces that the endpoints of the new segment had before the step
ReusedFaces == { g.vert[s].null_face : s \in {call'.start, call'.end} } \ {NoF}

\* the new ENDPOINT that the step has put on the ring of null face nf
NewEndpoint(nf) ==
    CHOOSE E \in NewRingVertices(nf) \cap AddedVertices : g'.vert[E].type = "ENDPOINT"

\* the vertex after v and the vertex before v on the ring of nf after the step
RingNext(nf, v) == g'.edge[CHOOSE e \in NewNullRing(nf) : g'.edge[e].src = v].trg
RingPrev(nf, v) == g'.edge[CHOOSE e \in NewNullRing(nf) : g'.edge[e].trg = v].src

\* the neighbour after (before) the new ENDPOINT of nf has been pushed: it
\* was on the ring before the step and the step has changed it
PushedNext(nf) ==
    /\ RingNext(nf, NewEndpoint(nf)) \in DOMAIN g.vert
    /\ g'.vert[RingNext(nf, NewEndpoint(nf))] # g.vert[RingNext(nf, NewEndpoint(nf))]

PushedPrev(nf) ==
    /\ RingPrev(nf, NewEndpoint(nf)) \in DOMAIN g.vert
    /\ g'.vert[RingPrev(nf, NewEndpoint(nf))] # g.vert[RingPrev(nf, NewEndpoint(nf))]

\* what process_next_null has to leave in the pushed vertex v of nf; sepAlfa
\* says which alfa a vertex that becomes a SEPPOINT gets
PushedNextIs(nf, v, sepAlfa(_, _)) ==
    LET E   == NewEndpoint(nf)
        sep == alfa_perp(g'.vert[E].alfa)
        far == g.vert[RingNext(nf, v)].alfa
        mid == diangle_mid(g'.vert[E].alfa, far)
    IN  /\ g'.vert[v].status = "NEW"
        /\ g'.vert[v].type = IF diangle_bracket(sep, mid, far) THEN "SEPPOINT" ELSE "NORMAL"
        /\ g'.vert[v].alfa = IF g'.vert[v].type = "SEPPOINT" THEN sepAlfa(sep, mid) ELSE mid

\* the same for process_prev_null
PushedPrevIs(nf, v, sepAlfa(_, _)) ==
    LET E   == NewEndpoint(nf)
        sep == alfa_perp_neg(g'.vert[E].alfa)
        far == g.vert[RingPrev(nf, v)].alfa
        mid == diangle_mid(far, g'.vert[E].alfa)
    IN  /\ g'.vert[v].status = "NEW"
        /\ g'.vert[v].type = IF diangle_bracket(mid, sep, g'.vert[E].alfa)
                             THEN "SEPPOINT" ELSE "NORMAL"
        /\ g'.vert[v].alfa = IF g'.vert[v].type = "SEPPOINT" THEN sepAlfa(sep, mid) ELSE mid

PushedAre(sepAlfa(_, _)) ==
    \A nf \in ReusedFaces :
      /\ PushedNext(nf) => PushedNextIs(nf, RingNext(nf, NewEndpoint(nf)), sepAlfa)
      /\ PushedPrev(nf) => PushedPrevIs(nf, RingPrev(nf, NewEndpoint(nf)), sepAlfa)

MidAlfa(sep, mid) == mid
SeparatorAlfa(sep, mid) == sep

\* C33 as stated: a blocking neighbour that process_next_null or
\* process_prev_null pushes on an existing null face gets status NEW and
\* the mid-alfa of the extended bracket as its alfa, both when it becomes a
\* SEPPOINT and when it becomes a NORMAL vertex; it becomes a SEPPOINT
\* exactly when that mid-alfa lies beyond the separator alfa
C33_PushedMidAlfa == [][NullFacesStep => PushedAre(MidAlfa)]_vars

\* C33: the pushed neighbour gets status NEW; it becomes a SEPPOINT exactly
\* when the mid-alfa of the extended bracket lies beyond the separator alfa,
\* and its alfa is then the separator alfa; otherwise it becomes a NORMAL
\* vertex with the mid-alfa as its alfa
C33_PushedAlfa == [][NullFacesStep => PushedAre(SeparatorAlfa)]_vars

\* a neighbour has been pushed and has become a SEPPOINT on a null face that
\* two segments share
C33_Witness ==
    /\ pc = "l_edges"
    /\ num_lsites = 2
    /\ \E v \in DOMAIN g.vert :
         /\ g.vert[v].type = "SEPPOINT"
         /\ g.vert[v].status = "NEW"
         /\ v \in {call.pos_sep_start, call.neg_sep_start, call.pos_sep_end, call.neg_sep_end}
         /\ v < call.seg_start
-----------------------------------------------------------------------------

(* ---- C34 ---- *)

\* the step has added a new SEPPOINT after (before) the new ENDPOINT of nf
SepPointNext(nf) ==
    /\ RingNext(nf, NewEndpoint(nf)) \in AddedVertices
    /\ g'.vert[RingNext(nf, NewEndpoint(nf))].type = "SEPPOINT"

SepPointPrev(nf) ==
    /\ RingPrev(nf, NewEndpoint(nf)) \in AddedVertices
    /\ g'.vert[RingPrev(nf, NewEndpoint(nf))].type = "SEPPOINT"

\* the site of the face across the null edge from u to v of the ring of nf
\* after the step: the face of its twin
SiteAcross(nf, u, v) ==
    g'.face[g'.edge[g'.edge[CHOOSE e \in NewNullRing(nf) :
                               g'.edge[e].src = u /\ g'.edge[e].trg = v].twin].face].site

\* the bracket between the new ENDPOINT of nf and the old neighbour after
\* (before) it admits the alfa of the separator on that side
AdmitsNext(nf) ==
    LET E == NewEndpoint(nf)
    IN  diangle_bracket(g'.vert[E].alfa, alfa_perp(g'.vert[E].alfa),
                        g.vert[OldAfter(nf, E)].alfa)

AdmitsPrev(nf) ==
    LET E == NewEndpoint(nf)
    IN  diangle_bracket(g.vert[OldBefore(nf, E)].alfa, alfa_perp_neg(g'.vert[E].alfa),
                        g'.vert[E].alfa)

-----------------------------------------------------------------------------

(* ---- C35 ---- *)

\* the SEPPOINT vertices on the ring of the null face nf
SepPointsOn(nf) ==
    { v \in { g.edge[e].trg : e \in SeqSet(Ring(g, g.face[nf].edge)) } :
        g.vert[v].type = "SEPPOINT" }

\* the SEPARATOR half-edges that leave vertex v
SeparatorsFrom(v) ==
    { e \in DOMAIN g.edge : g.edge[e].src = v /\ g.edge[e].type = "SEPARATOR" }

\* the old neighbour after (before) the new ENDPOINT of nf is a SEPPOINT
\* whose alfa is that of the separator of the new segment on that side: the
\* identical-SEPPOINT case of process_next_null (process_prev_null)
IdenticalNext(nf) ==
    LET t == RingNext(nf, NewEndpoint(nf))
    IN  /\ t \in DOMAIN g.vert
        /\ g.vert[t].type = "SEPPOINT"
        /\ g.vert[t].alfa = alfa_perp(g'.vert[NewEndpoint(nf)].alfa)

IdenticalPrev(nf) ==
    LET t == RingPrev(nf, NewEndpoint(nf))
    IN  /\ t \in DOMAIN g.vert
        /\ g.vert[t].type = "SEPPOINT"
        /\ g.vert[t].alfa = alfa_perp_neg(g'.vert[NewEndpoint(nf)].alfa)

\* the existing separator of the SEPPOINT t is used again: t is unchanged
\* and the far end of its SEPARATOR is NEW after the step
SeparatorReused(t) ==
    /\ g'.vert[t] = g.vert[t]
    /\ SeparatorsFrom(t) # {}
    /\ \E e \in SeparatorsFrom(t) : g'.vert[g.edge[e].trg].status = "NEW"

\* the separator endpoints that find_null_face has returned for the endpoint
\* s of the new segment: from process_next_null and from process_prev_null
ReturnedNext(s) == IF s = call'.start THEN call'.neg_sep_start ELSE call'.neg_sep_end
ReturnedPrev(s) == IF s = call'.start THEN call'.pos_sep_start ELSE call'.pos_sep_end

\* C35: after any sequence of line insertions that share endpoints no null
\* face has two SEPPOINT vertices with the same alfa and no SEPPOINT has
\* more than one outgoing SEPARATOR half-edge: when the would-be separator
\* alfa equals the alfa of an existing neighbouring SEPPOINT, no separator
\* endpoint is returned, no new SEPARATOR is created at that side, and the
\* far end of the existing separator is marked NEW
C35_NoDuplicateSeparator ==
    /\ [](pc = "idle" =>
            /\ \A nf \in NullFaces :
                 /\ RingOK(g, g.face[nf].edge)
                 /\ \A u, v \in SepPointsOn(nf) : u # v => g.vert[u].alfa # g.vert[v].alfa
            /\ \A v \in DOMAIN g.vert :
                 g.vert[v].type = "SEPPOINT" => Cardinality(SeparatorsFrom(v)) <= 1)
    /\ [][NullFacesStep =>
            \A s \in {call'.start, call'.end} :
              g.vert[s].null_face # NoF =>
                /\ IdenticalNext(g.vert[s].null_face) =>
                     /\ ReturnedNext(s) = NoV
                     /\ SeparatorReused(RingNext(g.vert[s].null_face,
                                                 NewEndpoint(g.vert[s].null_face)))
                /\ IdenticalPrev(g.vert[s].null_face) =>
                     /\ ReturnedPrev(s) = NoV
                     /\ SeparatorReused(RingPrev(g.vert[s].null_face,
                                                 NewEndpoint(g.vert[s].null_face)))]_vars
    /\ [][(pc \in {"l_sep1", "l_sep2", "l_sep3", "l_sep4"} /\ SepEndp = NoV /\ pc' # "crashed")
             => (DOMAIN g'.edge = DOMAIN g.edge)]_vars

\* the second of two segments on one line that share an endpoint has met
\* the separators of the first at the shared endpoint: no separator endpoint
\* was returned there and the face of the point site is the zero_point_face
C35_Witness ==
    /\ pc = "l_edges"
    /\ call.op = "line"
    /\ hist.lcalls = 1
    /\ zero_point_face # NoF
    /\ \/ call.neg_sep_start = NoV /\ call.pos_sep_start = NoV
       \/ call.neg_sep_end = NoV /\ call.pos_sep_end = NoV
-----------------------------------------------------------------------------

(* ---- C36 ---- *)

\* the step that ends the seed phase of insert_line_site, in a run where
\* the identical-SEPPOINT case has set zero_point_face
ZeroFaceSeed == pc = "l_seed" /\ pc' = "augment" /\ zero_point_face # NoF

-----------------------------------------------------------------------------

(* ---- C37 ---- *)

\* the OUTER vertices and the OUTEDGE half-edges of the graph G
OuterVertices(G) == { v \in DOMAIN G.vert : G.vert[v].type = "OUTER" }
OuterEdges(G) == { e \in DOMAIN G.edge : G.edge[e].type = "OUTEDGE" }

\* the half-edges that a step takes out of the graph
RemovedEdges == (DOMAIN g.edge) \ (DOMAIN g'.edge)

\* the vertices queued for the in_circle test
QueuedVertices == { q[1] : q \in vertexQueue }

\* C37: over any sequence of insertions the three OUTER vertices keep
\* status OUT, are never queued, never marked IN and never deleted, and the
\* three OUTEDGE half-edges stay twinless with unchanged source, target and
\* face; a half-edge at an OUTER vertex that is subdivided joins the OUTER
\* vertex with an inner vertex
C37_OuterFrame ==
    /\ [](/\ Cardinality(OuterVertices(g)) = 3
          /\ Cardinality(OuterEdges(g)) = 3
          /\ \A v \in OuterVertices(g) :
               /\ g.vert[v].status = "OUT"
               /\ ~g.vert[v].in_queue
               /\ v \notin QueuedVertices
               /\ v \notin SeqSet(v0)
               /\ v \notin modified_vertices
          /\ \A e \in OuterEdges(g) :
               /\ g.edge[e].twin = NoE
               /\ {g.edge[e].src, g.edge[e].trg} \subseteq OuterVertices(g))
    /\ [][/\ OuterVertices(g') = OuterVertices(g)
          /\ OuterEdges(g') = OuterEdges(g)
          /\ \A e \in OuterEdges(g) :
               /\ g'.edge[e].src = g.edge[e].src
               /\ g'.edge[e].trg = g.edge[e].trg
               /\ g'.edge[e].face = g.edge[e].face
          /\ \A e \in RemovedEdges :
               {g.edge[e].src, g.edge[e].trg} \cap OuterVertices(g) # {} =>
                 /\ Cardinality({g.edge[e].src, g.edge[e].trg} \cap OuterVertices(g)) = 1
                 /\ g.edge[e].type # "OUTEDGE"
                 /\ {g.edge[e].src, g.edge[e].trg} \subseteq DOMAIN g'.vert
                 /\ \E n \in (DOMAIN g'.vert) \ (DOMAIN g.vert), a, b \in DOMAIN g'.edge :
                      /\ g'.edge[a].src = g.edge[e].src /\ g'.edge[a].trg = n
                      /\ g'.edge[b].src = n /\ g'.edge[b].trg = g.edge[e].trg]_vars

\* a half-edge between an inner vertex and an OUTER vertex has been
\* subdivided: a NEW vertex lies next to an OUTER vertex during an insertion
C37_Witness ==
    /\ pc # "idle"
    /\ v0 # << >>
    /\ \E e \in DOMAIN g.edge :
         /\ g.edge[e].src \in OuterVertices(g)
         /\ g.vert[g.edge[e].trg].status = "NEW"
-----------------------------------------------------------------------------

(* ---- C38 ---- *)

\* num_point_sites() and num_line_sites(): the two counters; after N point
\* insertions num_point_sites is N + 3
num_point_sites == num_psites
num_line_sites == num_lsites

\* the faces of point sites and of line sites
PointFaces == { f \in DOMAIN g.face : isPoint(g.face[f].site) }
LineFaces == { f \in DOMAIN g.face : isLine(g.face[f].site) }

\* the faces that the call that returned last has counted but not created:
\* insert_point_site returns at its checkpoints 1 to 3 before add_face,
\* insert_line_site at its checkpoint 1 before add_linesite_edges
MissingPointFaces ==
    IF ret.op = "point" /\ ~ret.completed /\ ret.step <= 3 THEN 1 ELSE 0

MissingLineFaces ==
    IF ret.op = "line" /\ ~ret.completed /\ ret.step = 1 THEN 2 ELSE 0

\* the statement as written: the counters equal the numbers of faces after
\* every return, early or not
C38_CountersCountFaces ==
    Returned =>
      /\ num_point_sites = Cardinality(PointFaces)
      /\ 2 * num_line_sites = Cardinality(LineFaces)

\* C38: whenever a public insert call has returned, num_point_sites() is
\* the number of faces whose site is a PointSite and 2 * num_line_sites()
\* the number of faces whose site is a LineSite, if the call has completed
\* or has returned after its faces were added; a call that returns early
\* before that has counted its site without a face: one point-site face is
\* missing after checkpoints 1 to 3 of insert_point_site, two line-site
\* faces after checkpoint 1 of insert_line_site
C38_CountersAfterReturn ==
    Returned =>
      /\ num_point_sites = Cardinality(PointFaces) + MissingPointFaces
      /\ 2 * num_line_sites = Cardinality(LineFaces) + MissingLineFaces

\* a line insertion has completed after two point insertions
C38_Completed ==
    /\ Returned
    /\ ret.op = "line"
    /\ ret.completed
    /\ num_point_sites = 5
    /\ Cardinality(LineFaces) = 2

\* a call has returned early before its faces were added
C38_Witness ==
    Returned /\ MissingPointFaces + MissingLineFaces > 0

\* insert_line_site has returned at its checkpoint 1
C38_LineEarly == Returned /\ MissingLineFaces = 2
-----------------------------------------------------------------------------

(* ---- C39 ---- *)

\* insert_point_site is about to call repair_face on its new face
PointRepair == pc = "repair" /\ call.op = "point"

\* the engine after repair_face(newface); ok is false if an assert stopped it
Repaired == repair_face(Cur, call.newface)

\* the null faces of the diagram and their NULLEDGE half-edges
NullEdges == { e \in DOMAIN g.edge : g.edge[e].type = "NULLEDGE" }

\* C39: during insert_point_site repair_face only rewrites next pointers on
\* the new face: it never changes the face or k of any half-edge, also when
\* the point is inserted after a line insertion has left null_face1 and
\* null_face2 set and null faces with NULLEDGE half-edges exist next to the
\* new cell
C39_RepairOnlyNext ==
    PointRepair =>
      /\ DOMAIN Repaired.g.edge = DOMAIN g.edge
      /\ \A e \in DOMAIN g.edge :
           /\ Repaired.g.edge[e].face = g.edge[e].face
           /\ Repaired.g.edge[e].k = g.edge[e].k
           /\ Repaired.g.edge[e] = [g.edge[e] EXCEPT !.next = Repaired.g.edge[e].next]
           /\ Repaired.g.edge[e].next # g.edge[e].next => g.edge[e].face = call.newface
      /\ Repaired.g.vert = g.vert
      /\ Repaired.g.face = g.face

\* a point is inserted after a line insertion: null_face1 and null_face2 are
\* still set, and the new cell borders the cell of an endpoint of the
\* segment, the cell that holds its null face
C39_Witness ==
    /\ PointRepair
    /\ Repaired.ok
    /\ num_lsites >= 1
    /\ null_face1 # NoF
    /\ null_face2 # NoF
    /\ NullEdges # {}
    /\ \E e \in DOMAIN g.edge, n \in NullEdges :
         /\ g.edge[e].face = call.newface
         /\ g.edge[e].twin # NoE
         /\ g.edge[g.edge[e].twin].face = g.edge[g.edge[n].twin].face
         /\ g.edge[n].face \in {null_face1, null_face2}
-----------------------------------------------------------------------------
====
